---------------------------- MODULE Spec2Model ----------------------------
(***************************************************************************)
(* The simple-type layer of musicxml-rs (src/types/simple_types.rs,        *)
(* src/types/complex_types.rs): the five pattern validators, the closed    *)
(* enumerations with their serde wire labels, the untagged unions, the     *)
(* numeric type aliases and the records assembled from them.               *)
(*                                                                         *)
(* Every decode is a pure function of one input.  A behaviour is one       *)
(* decode: Init draws the request (the type or validator asked for and the *)
(* raw token handed over by the transport reader) and one action applies   *)
(* the decoder the code derives for that type.                             *)
(*                                                                         *)
(* Text is a sequence of one-character strings, so that case rules and     *)
(* regular expressions operate on characters.  A raw token is a value of   *)
(* serde's data model, as a self-describing reader hands it to the derived *)
(* Deserialize implementations:                                            *)
(*    [kind |-> "str",  s |-> text]         a string                       *)
(*    [kind |-> "u64",  n |-> 0, 1, ...]    an unsigned integer            *)
(*    [kind |-> "i64",  n |-> ..-1, 0, 1..] a signed integer               *)
(*    [kind |-> "f64",  x |-> k]            the decimal k / FracUnits      *)
(*    [kind |-> "unit"]                     null / nothing                 *)
(*    [kind |-> "map",  entries |-> <<[key |-> text, value |-> token]>>]   *)
(***************************************************************************)
EXTENDS Integers, Sequences, FiniteSets, TLC

VARIABLES
  pc,      \* "ready" before the decode, "done" after it
  target,  \* name of the validator or type the caller asked for
  raw,     \* the raw token
  result,  \* NoResult, or what the decode returned
  statics, \* per validator, its lazy_static regex: Once state, cell, builds
  threads  \* the threads validating raw concurrently (none in a single call)

vars == <<pc, target, raw, result, statics, threads>>

---------------------------------------------------------------------------
(* Bounds of the model. *)

\* longest run of characters put before or after a base string
MaxPad == 1
\* numeric tokens lie within MaxDelta of a value of interest
MaxDelta == 2
\* decimals are multiples of 1 / FracUnits
FracUnits == 2
\* most fields present in a record token
MaxPresent == 2
\* Threads that validate the same text at the same time.
MaxThreads == 2

---------------------------------------------------------------------------
(* Results. *)

NoResult == [pending |-> TRUE]
Ok(v) == [ok |-> TRUE, val |-> v]
Err(e) == [ok |-> FALSE, err |-> e]

Str(s) == [kind |-> "str", s |-> s]
U64(n) == [kind |-> "u64", n |-> n]
I64(n) == [kind |-> "i64", n |-> n]
F64(x) == [kind |-> "f64", x |-> x]
Unit == [kind |-> "unit"]
Entry(k, v) == [key |-> k, value |-> v]
Map(es) == [kind |-> "map", entries |-> es]

---------------------------------------------------------------------------
(* Characters. *)

UpperCase ==
  <<"A", "B", "C", "D", "E", "F", "G", "H", "I", "J", "K", "L", "M",
    "N", "O", "P", "Q", "R", "S", "T", "U", "V", "W", "X", "Y", "Z">>
LowerCase ==
  <<"a", "b", "c", "d", "e", "f", "g", "h", "i", "j", "k", "l", "m",
    "n", "o", "p", "q", "r", "s", "t", "u", "v", "w", "x", "y", "z">>
Digits == {"0", "1", "2", "3", "4", "5", "6", "7", "8", "9"}

is_uppercase(ch) == \E i \in 1..Len(UpperCase) : UpperCase[i] = ch

to_ascii_lowercase(ch) ==
  IF is_uppercase(ch)
    THEN LowerCase[CHOOSE i \in 1..Len(UpperCase) : UpperCase[i] = ch]
    ELSE ch

---------------------------------------------------------------------------
(* Regular expressions (regex::Regex) as syntax trees, and is_match, which *)
(* searches for a match starting at any position and ending at any         *)
(* position: the patterns of the source carry no ^ or $ anchors.           *)

Class(S) == [t |-> "class", neg |-> FALSE, set |-> S]
NotClass(S) == [t |-> "class", neg |-> TRUE, set |-> S]
Lit(ch) == Class({ch})
Concat(rs) == [t |-> "concat", rs |-> rs]
Star(r) == [t |-> "star", r |-> r]
Plus(r) == [t |-> "plus", r |-> r]
Optional(r) == [t |-> "optional", r |-> r]
Repeat(r, n) == [t |-> "repeat", r |-> r, n |-> n]

RECURSIVE MatchEnds(_, _, _)
RECURSIVE SetEnds(_, _, _)
RECURSIVE ConcatEnds(_, _, _, _)
RECURSIVE StarEnds(_, _, _)
RECURSIVE RepeatEnds(_, _, _, _)

\* The positions j such that re matches s[i+1..j].
MatchEnds(re, s, i) ==
  CASE re.t = "class" ->
         IF i < Len(s) /\ ((s[i + 1] \in re.set) # re.neg) THEN {i + 1} ELSE {}
    [] re.t = "concat" -> ConcatEnds(re.rs, 1, s, {i})
    [] re.t = "star" -> StarEnds(re.r, s, {i})
    [] re.t = "plus" -> StarEnds(re.r, s, SetEnds(re.r, s, {i}))
    [] re.t = "optional" -> {i} \cup MatchEnds(re.r, s, i)
    [] re.t = "repeat" -> RepeatEnds(re.r, re.n, s, {i})

SetEnds(re, s, S) == UNION {MatchEnds(re, s, j) : j \in S}

ConcatEnds(rs, k, s, S) ==
  IF k > Len(rs) THEN S ELSE ConcatEnds(rs, k + 1, s, SetEnds(rs[k], s, S))

StarEnds(r, s, S) ==
  LET N == S \cup SetEnds(r, s, S)
  IN  IF N = S THEN S ELSE StarEnds(r, s, N)

RepeatEnds(r, n, s, S) ==
  IF n = 0 THEN S ELSE RepeatEnds(r, n - 1, s, SetEnds(r, s, S))

\* Regex::is_match: some substring of s matches.
is_match(re, s) == \E i \in 0..Len(s) : MatchEnds(re, s, i) # {}

\* The pattern matches the entire input (what ^...$ would demand).
FullMatch(re, s) == Len(s) \in MatchEnds(re, s, 0)

\* [\dA-F]
HexDigit == Class(Digits \cup {"A", "B", "C", "D", "E", "F"})
\* [1-9] and [0-9]
NonZeroDigit == Class(Digits \ {"0"})
AnyDigit == Class(Digits)

\* A plausible slip in the repetition count: five hex digits where six are meant.
COLOR_RE_FiveDigits ==
  Concat(<<Lit("#"), Repeat(HexDigit, 5), Optional(Concat(<<HexDigit, HexDigit>>))>>)

\* r"#[\dA-F]{6}([\dA-F][\dA-F])?"
COLOR_RE ==
  Concat(<<Lit("#"), Repeat(HexDigit, 6), Optional(Concat(<<HexDigit, HexDigit>>))>>)

\* r"[^,]+(, ?[^,]+)*"
CST_RE ==
  Concat(<<Plus(NotClass({","})),
           Star(Concat(<<Lit(","), Optional(Lit(" ")), Plus(NotClass({","}))>>))>>)

\* r"([ ]*)"
ENDN_RE == Star(Class({" "}))

\* r"[1-9][0-9]*(, ?[1-9][0-9]*)*"
TO_RE ==
  Concat(<<NonZeroDigit, Star(AnyDigit),
           Star(Concat(<<Lit(","), Optional(Lit(" ")), NonZeroDigit, Star(AnyDigit)>>))>>)

\* r"[^:Z]*"
YMD_RE == Star(NotClass({":", "Z"}))

---------------------------------------------------------------------------
(* The five pattern validators.  Ok carries (), Err the ValidationError     *)
(* code.                                                                   *)

validate_color(color) ==
  IF is_match(COLOR_RE, color) THEN Ok("()") ELSE Err("Invalid color")

validate_comma_separated_text(text) ==
  IF is_match(CST_RE, text) THEN Ok("()") ELSE Err("Invalid comma separated text")

validate_ending_number(text) ==
  IF is_match(ENDN_RE, text) THEN Ok("()") ELSE Err("Invalid ending number")

validate_time_only(text) ==
  IF is_match(TO_RE, text) THEN Ok("()") ELSE Err("Invalid time only")

validate_yyyy_mm_dd(text) ==
  IF is_match(YMD_RE, text) THEN Ok("()") ELSE Err("Invalid time only")

\* What a validator returns once its pattern has been searched for.
InvalidMessage(v) ==
  CASE v = "validate_color" -> "Invalid color"
    [] v = "validate_comma_separated_text" -> "Invalid comma separated text"
    [] v = "validate_ending_number" -> "Invalid ending number"
    [] v = "validate_time_only" -> "Invalid time only"
    [] v = "validate_yyyy_mm_dd" -> "Invalid time only"

\* Each validator owns a function-local lazy_static regex: a cell guarded by
\* a Once.  The cell is empty until the first dereference builds the regex.
EmptyCell == [set |-> FALSE]
Built(re) == [set |-> TRUE, re |-> re]
Uninitialised == [state |-> "uninit", cell |-> EmptyCell, builds |-> 0]

\* The validators by name, with the pattern each one searches for.
Validators ==
  {"validate_color", "validate_comma_separated_text", "validate_ending_number",
   "validate_time_only", "validate_yyyy_mm_dd"}

PatternOf(v) ==
  CASE v = "validate_color" -> COLOR_RE
    [] v = "validate_comma_separated_text" -> CST_RE
    [] v = "validate_ending_number" -> ENDN_RE
    [] v = "validate_time_only" -> TO_RE
    [] v = "validate_yyyy_mm_dd" -> YMD_RE

---------------------------------------------------------------------------
(* Wire labels of enum variants: #[serde(rename = "...")] on the variant    *)
(* wins, otherwise the container's #[serde(rename_all = "...")] rule is     *)
(* applied to the variant identifier, otherwise the identifier is used.    *)

RECURSIVE snake_case(_, _, _)
\* RenameRule::SnakeCase with the separator sep ("_", or "-" for kebab-case):
\* a separator before every upper-case character but the first, all lowered.
snake_case(ident, i, sep) ==
  IF i > Len(ident) THEN <<>>
  ELSE (IF i > 1 /\ is_uppercase(ident[i]) THEN <<sep>> ELSE <<>>)
       \o <<to_ascii_lowercase(ident[i])>>
       \o snake_case(ident, i + 1, sep)

apply_to_variant(rule, ident) ==
  CASE rule = "none" -> ident
    [] rule = "lowercase" -> [i \in 1..Len(ident) |-> to_ascii_lowercase(ident[i])]
    [] rule = "kebab-case" -> snake_case(ident, 1, "-")

WireLabel(e, v) ==
  IF e.variants[v].rename # <<>>
    THEN e.variants[v].rename[1]
    ELSE apply_to_variant(e.rename_all, e.variants[v].ident)

Labels(e) == {WireLabel(e, v) : v \in 1..Len(e.variants)}

\* simple_types.rs:160-166  pub enum AboveBelow
AboveBelow ==
  [kind |-> "enum", name |-> "AboveBelow", rename_all |-> "lowercase",
   variants |-> <<
     [ident |-> <<"A", "b", "o", "v", "e">>, rename |-> <<>>],
     [ident |-> <<"B", "e", "l", "o", "w">>, rename |-> <<>>] >>]

\* simple_types.rs:168-204  pub enum AccidentalValue
AccidentalValue ==
  [kind |-> "enum", name |-> "AccidentalValue", rename_all |-> "kebab-case",
   variants |-> <<
     [ident |-> <<"S", "h", "a", "r", "p">>, rename |-> <<>>],
     [ident |-> <<"N", "a", "t", "u", "r", "a", "l">>, rename |-> <<>>],
     [ident |-> <<"F", "l", "a", "t">>, rename |-> <<>>],
     [ident |-> <<"D", "o", "u", "b", "l", "e", "S", "h", "a", "r", "p">>, rename |-> <<>>],
     [ident |-> <<"S", "h", "a", "r", "p", "S", "h", "a", "r", "p">>, rename |-> <<>>],
     [ident |-> <<"F", "l", "a", "t", "F", "l", "a", "t">>, rename |-> <<>>],
     [ident |-> <<"N", "a", "t", "u", "r", "a", "l", "S", "h", "a", "r", "p">>, rename |-> <<>>],
     [ident |-> <<"N", "a", "t", "u", "r", "a", "l", "F", "l", "a", "t">>, rename |-> <<>>],
     [ident |-> <<"Q", "u", "a", "r", "t", "e", "r", "F", "l", "a", "t">>, rename |-> <<>>],
     [ident |-> <<"T", "h", "r", "e", "e", "Q", "u", "a", "r", "t", "e", "r", "s", "F", "l", "a", "t">>, rename |-> <<>>],
     [ident |-> <<"S", "h", "a", "r", "p", "D", "o", "w", "n">>, rename |-> <<>>],
     [ident |-> <<"S", "h", "a", "r", "p", "U", "p">>, rename |-> <<>>],
     [ident |-> <<"N", "a", "t", "u", "r", "a", "l", "D", "o", "w", "n">>, rename |-> <<>>],
     [ident |-> <<"N", "a", "t", "u", "r", "a", "l", "U", "p">>, rename |-> <<>>],
     [ident |-> <<"F", "l", "a", "t", "D", "o", "w", "n">>, rename |-> <<>>],
     [ident |-> <<"F", "l", "a", "t", "U", "p">>, rename |-> <<>>],
     [ident |-> <<"T", "r", "i", "p", "l", "e", "S", "h", "a", "r", "p">>, rename |-> <<>>],
     [ident |-> <<"T", "r", "i", "p", "l", "e", "F", "l", "a", "t">>, rename |-> <<>>],
     [ident |-> <<"S", "l", "a", "s", "h", "Q", "u", "a", "r", "t", "e", "r", "S", "h", "a", "r", "p">>, rename |-> <<>>],
     [ident |-> <<"S", "l", "a", "s", "h", "S", "h", "a", "r", "p">>, rename |-> <<>>],
     [ident |-> <<"S", "l", "a", "s", "h", "F", "l", "a", "t">>, rename |-> <<>>],
     [ident |-> <<"D", "o", "u", "b", "l", "e", "S", "l", "a", "s", "h", "F", "l", "a", "t">>, rename |-> <<>>],
     [ident |-> <<"S", "h", "a", "r", "p", "1">>, rename |-> <<>>],
     [ident |-> <<"S", "h", "a", "r", "p", "2">>, rename |-> <<>>],
     [ident |-> <<"S", "h", "a", "r", "p", "3">>, rename |-> <<>>],
     [ident |-> <<"S", "h", "a", "r", "p", "5">>, rename |-> <<>>],
     [ident |-> <<"F", "l", "a", "t", "1">>, rename |-> <<>>],
     [ident |-> <<"F", "l", "a", "t", "2">>, rename |-> <<>>],
     [ident |-> <<"F", "l", "a", "t", "3">>, rename |-> <<>>],
     [ident |-> <<"F", "l", "a", "t", "4">>, rename |-> <<>>],
     [ident |-> <<"S", "o", "r", "i">>, rename |-> <<>>],
     [ident |-> <<"K", "o", "r", "o", "n">>, rename |-> <<>>] >>]

\* simple_types.rs:206-227  pub enum ArrowDirection
ArrowDirection ==
  [kind |-> "enum", name |-> "ArrowDirection", rename_all |-> "lowercase",
   variants |-> <<
     [ident |-> <<"L", "e", "f", "t">>, rename |-> <<>>],
     [ident |-> <<"U", "p">>, rename |-> <<>>],
     [ident |-> <<"R", "i", "g", "h", "t">>, rename |-> <<>>],
     [ident |-> <<"D", "o", "w", "n">>, rename |-> <<>>],
     [ident |-> <<"N", "o", "r", "t", "h", "w", "e", "s", "t">>, rename |-> <<>>],
     [ident |-> <<"N", "o", "r", "t", "h", "e", "a", "s", "t">>, rename |-> <<>>],
     [ident |-> <<"S", "o", "u", "t", "h", "e", "a", "s", "t">>, rename |-> <<>>],
     [ident |-> <<"S", "o", "u", "t", "h", "w", "e", "s", "t">>, rename |-> <<>>],
     [ident |-> <<"L", "e", "f", "t", "R", "i", "g", "h", "t">>, rename |-> << <<"l", "e", "f", "t", " ", "r", "i", "g", "h", "t">> >>],
     [ident |-> <<"U", "p", "D", "o", "w", "n">>, rename |-> << <<"u", "p", " ", "d", "o", "w", "n">> >>],
     [ident |-> <<"N", "o", "r", "t", "h", "w", "e", "s", "t", "S", "o", "u", "t", "h", "e", "a", "s", "t">>, rename |-> << <<"n", "o", "r", "t", "h", "w", "e", "s", "t", " ", "s", "o", "u", "t", "h", "e", "a", "s", "t">> >>],
     [ident |-> <<"N", "o", "r", "t", "h", "e", "a", "s", "t", "S", "o", "u", "t", "h", "w", "e", "s", "t">>, rename |-> << <<"n", "o", "r", "t", "h", "e", "a", "s", "t", " ", "s", "o", "u", "t", "h", "w", "e", "s", "t">> >>],
     [ident |-> <<"O", "t", "h", "e", "r">>, rename |-> <<>>] >>]

\* simple_types.rs:229-240  pub enum ArrowStyle
ArrowStyle ==
  [kind |-> "enum", name |-> "ArrowStyle", rename_all |-> "lowercase",
   variants |-> <<
     [ident |-> <<"S", "i", "n", "g", "l", "e">>, rename |-> <<>>],
     [ident |-> <<"D", "o", "u", "b", "l", "e">>, rename |-> <<>>],
     [ident |-> <<"F", "i", "l", "l", "e", "d">>, rename |-> <<>>],
     [ident |-> <<"H", "o", "l", "l", "o", "w">>, rename |-> <<>>],
     [ident |-> <<"P", "a", "i", "r", "e", "d">>, rename |-> <<>>],
     [ident |-> <<"C", "o", "m", "b", "i", "n", "e", "d">>, rename |-> <<>>],
     [ident |-> <<"O", "t", "h", "e", "r">>, rename |-> <<>>] >>]

\* simple_types.rs:242-248  pub enum BackwardForward
BackwardForward ==
  [kind |-> "enum", name |-> "BackwardForward", rename_all |-> "lowercase",
   variants |-> <<
     [ident |-> <<"B", "a", "c", "k", "w", "a", "r", "d">>, rename |-> <<>>],
     [ident |-> <<"F", "o", "r", "w", "a", "r", "d">>, rename |-> <<>>] >>]

\* simple_types.rs:250-265  pub enum BarStyle
BarStyle ==
  [kind |-> "enum", name |-> "BarStyle", rename_all |-> "kebab-case",
   variants |-> <<
     [ident |-> <<"R", "e", "g", "u", "l", "a", "r">>, rename |-> <<>>],
     [ident |-> <<"D", "o", "t", "t", "e", "d">>, rename |-> <<>>],
     [ident |-> <<"D", "a", "s", "h", "e", "d">>, rename |-> <<>>],
     [ident |-> <<"H", "e", "a", "v", "y">>, rename |-> <<>>],
     [ident |-> <<"L", "i", "g", "h", "t", "L", "i", "g", "h", "t">>, rename |-> <<>>],
     [ident |-> <<"L", "i", "g", "h", "t", "H", "e", "a", "v", "y">>, rename |-> <<>>],
     [ident |-> <<"H", "e", "a", "v", "y", "L", "i", "g", "h", "t">>, rename |-> <<>>],
     [ident |-> <<"H", "e", "a", "v", "y", "H", "e", "a", "v", "y">>, rename |-> <<>>],
     [ident |-> <<"T", "i", "c", "k">>, rename |-> <<>>],
     [ident |-> <<"S", "h", "o", "r", "t">>, rename |-> <<>>],
     [ident |-> <<"N", "o", "n", "e">>, rename |-> <<>>] >>]

\* simple_types.rs:267-298  pub enum BeaterValue
BeaterValue ==
  [kind |-> "enum", name |-> "BeaterValue", rename_all |-> "lowercase",
   variants |-> <<
     [ident |-> <<"B", "o", "w">>, rename |-> <<>>],
     [ident |-> <<"C", "h", "i", "m", "e", "H", "a", "m", "m", "e", "r">>, rename |-> << <<"c", "h", "i", "m", "e", " ", "h", "a", "m", "m", "e", "r">> >>],
     [ident |-> <<"C", "o", "i", "n">>, rename |-> <<>>],
     [ident |-> <<"F", "i", "n", "g", "e", "r">>, rename |-> <<>>],
     [ident |-> <<"F", "i", "n", "g", "e", "r", "n", "a", "i", "l">>, rename |-> <<>>],
     [ident |-> <<"F", "i", "s", "t">>, rename |-> <<>>],
     [ident |-> <<"G", "u", "i", "r", "o", "S", "c", "r", "a", "p", "e", "r">>, rename |-> << <<"g", "u", "i", "r", "o", " ", "s", "c", "r", "a", "p", "e", "r">> >>],
     [ident |-> <<"H", "a", "m", "m", "e", "r">>, rename |-> <<>>],
     [ident |-> <<"H", "a", "n", "d">>, rename |-> <<>>],
     [ident |-> <<"J", "a", "z", "z", "S", "t", "i", "c", "k">>, rename |-> << <<"j", "a", "z", "z", " ", "s", "t", "i", "c", "k">> >>],
     [ident |-> <<"K", "n", "i", "t", "t", "i", "n", "g", "N", "e", "e", "d", "l", "e">>, rename |-> << <<"k", "n", "i", "t", "t", "i", "n", "g", " ", "n", "e", "e", "d", "l", "e">> >>],
     [ident |-> <<"M", "e", "t", "a", "l", "H", "a", "m", "m", "e", "r">>, rename |-> << <<"m", "e", "t", "a", "l", " ", "h", "a", "m", "m", "e", "r">> >>],
     [ident |-> <<"S", "n", "a", "r", "e", "S", "t", "i", "c", "k">>, rename |-> << <<"s", "n", "a", "r", "e", " ", "s", "t", "i", "c", "k">> >>],
     [ident |-> <<"S", "p", "o", "o", "n", "M", "a", "l", "l", "e", "t">>, rename |-> << <<"s", "p", "o", "o", "n", " ", "m", "a", "l", "l", "e", "t">> >>],
     [ident |-> <<"T", "r", "i", "a", "n", "g", "l", "e", "B", "e", "a", "t", "e", "r">>, rename |-> << <<"t", "r", "i", "a", "n", "g", "l", "e", " ", "b", "e", "a", "t", "e", "r">> >>],
     [ident |-> <<"T", "r", "i", "a", "n", "g", "l", "e", "B", "e", "a", "t", "e", "r", "P", "l", "a", "i", "n">>, rename |-> << <<"t", "r", "i", "a", "n", "g", "l", "e", " ", "b", "e", "a", "t", "e", "r", " ", "p", "l", "a", "i", "n">> >>],
     [ident |-> <<"W", "i", "r", "e", "B", "r", "u", "s", "h">>, rename |-> << <<"w", "i", "r", "e", " ", "b", "r", "u", "s", "h">> >>] >>]

\* simple_types.rs:300-306  pub enum BreathMarkValue
BreathMarkValue ==
  [kind |-> "enum", name |-> "BreathMarkValue", rename_all |-> "lowercase",
   variants |-> <<
     [ident |-> <<"C", "o", "m", "m", "a">>, rename |-> <<>>],
     [ident |-> <<"T", "i", "c", "k">>, rename |-> <<>>] >>]

\* simple_types.rs:308-315  pub enum CancelLocation
CancelLocation ==
  [kind |-> "enum", name |-> "CancelLocation", rename_all |-> "kebab-case",
   variants |-> <<
     [ident |-> <<"L", "e", "f", "t">>, rename |-> <<>>],
     [ident |-> <<"R", "i", "g", "h", "t">>, rename |-> <<>>],
     [ident |-> <<"B", "e", "f", "o", "r", "e", "B", "a", "r", "l", "i", "n", "e">>, rename |-> <<>>] >>]

\* simple_types.rs:317-323  pub enum CircularArrow
CircularArrow ==
  [kind |-> "enum", name |-> "CircularArrow", rename_all |-> "lowercase",
   variants |-> <<
     [ident |-> <<"C", "l", "o", "c", "k", "w", "i", "s", "e">>, rename |-> <<>>],
     [ident |-> <<"A", "n", "t", "i", "c", "l", "o", "c", "k", "w", "i", "s", "e">>, rename |-> <<>>] >>]

\* simple_types.rs:325-338  pub enum ClefSign
ClefSign ==
  [kind |-> "enum", name |-> "ClefSign", rename_all |-> "none",
   variants |-> <<
     [ident |-> <<"G">>, rename |-> <<>>],
     [ident |-> <<"F">>, rename |-> <<>>],
     [ident |-> <<"C">>, rename |-> <<>>],
     [ident |-> <<"P", "e", "r", "c", "u", "s", "s", "i", "o", "n">>, rename |-> << <<"p", "e", "r", "c", "u", "s", "s", "i", "o", "n">> >>],
     [ident |-> <<"T", "A", "B">>, rename |-> <<>>],
     [ident |-> <<"J", "i", "a", "n", "p", "u">>, rename |-> << <<"j", "i", "a", "n", "p", "u">> >>],
     [ident |-> <<"N", "o", "n", "e">>, rename |-> << <<"n", "o", "n", "e">> >>] >>]

\* simple_types.rs:340-352  pub enum CssFontSize
CssFontSize ==
  [kind |-> "enum", name |-> "CssFontSize", rename_all |-> "kebab-case",
   variants |-> <<
     [ident |-> <<"X", "x", "S", "m", "a", "l", "l">>, rename |-> <<>>],
     [ident |-> <<"X", "S", "M", "a", "l", "l">>, rename |-> <<>>],
     [ident |-> <<"S", "m", "a", "l", "l">>, rename |-> <<>>],
     [ident |-> <<"M", "e", "d", "i", "u", "m">>, rename |-> <<>>],
     [ident |-> <<"L", "a", "r", "g", "e">>, rename |-> <<>>],
     [ident |-> <<"X", "L", "a", "r", "g", "e">>, rename |-> <<>>],
     [ident |-> <<"X", "X", "L", "a", "r", "g", "e">>, rename |-> << <<"x", "x", "-", "l", "a", "r", "g", "e">> >>] >>]

\* simple_types.rs:354-363  pub enum DegreeSymbolValue
DegreeSymbolValue ==
  [kind |-> "enum", name |-> "DegreeSymbolValue", rename_all |-> "kebab-case",
   variants |-> <<
     [ident |-> <<"M", "a", "j", "o", "r">>, rename |-> <<>>],
     [ident |-> <<"M", "i", "n", "o", "r">>, rename |-> <<>>],
     [ident |-> <<"A", "u", "g", "m", "e", "n", "t", "e", "d">>, rename |-> <<>>],
     [ident |-> <<"D", "i", "m", "i", "n", "i", "s", "h", "e", "d">>, rename |-> <<>>],
     [ident |-> <<"H", "a", "l", "f", "D", "i", "m", "i", "n", "i", "s", "h", "e", "d">>, rename |-> <<>>] >>]

\* simple_types.rs:365-372  pub enum DegreeTypeValue
DegreeTypeValue ==
  [kind |-> "enum", name |-> "DegreeTypeValue", rename_all |-> "lowercase",
   variants |-> <<
     [ident |-> <<"A", "d", "d">>, rename |-> <<>>],
     [ident |-> <<"A", "l", "t", "e", "r">>, rename |-> <<>>],
     [ident |-> <<"S", "u", "b", "t", "r", "a", "c", "t">>, rename |-> <<>>] >>]

\* simple_types.rs:374-403  pub enum Effect
Effect ==
  [kind |-> "enum", name |-> "Effect", rename_all |-> "lowercase",
   variants |-> <<
     [ident |-> <<"A", "n", "v", "i", "l">>, rename |-> <<>>],
     [ident |-> <<"A", "u", "t", "o", "H", "o", "r", "n">>, rename |-> << <<"a", "u", "t", "o", " ", "h", "o", "r", "n">> >>],
     [ident |-> <<"B", "i", "r", "d", "W", "h", "i", "s", "t", "l", "e">>, rename |-> << <<"b", "i", "r", "d", " ", "w", "h", "i", "s", "t", "l", "e">> >>],
     [ident |-> <<"C", "a", "n", "n", "o", "n">>, rename |-> <<>>],
     [ident |-> <<"D", "u", "c", "k", "C", "a", "l", "l">>, rename |-> << <<"d", "u", "c", "k", " ", "c", "a", "l", "l">> >>],
     [ident |-> <<"G", "u", "n", "S", "h", "o", "t">>, rename |-> << <<"g", "u", "n", " ", "s", "h", "o", "t">> >>],
     [ident |-> <<"K", "l", "a", "x", "o", "n", "H", "o", "r", "n">>, rename |-> << <<"k", "l", "a", "x", "o", "n", " ", "h", "o", "r", "n">> >>],
     [ident |-> <<"L", "i", "o", "n", "s", "R", "o", "a", "r">>, rename |-> << <<"l", "i", "o", "n", "s", " ", "r", "o", "a", "r">> >>],
     [ident |-> <<"P", "o", "l", "i", "c", "e", "W", "h", "i", "s", "t", "l", "e">>, rename |-> << <<"p", "o", "l", "i", "c", "e", " ", "w", "h", "i", "s", "t", "l", "e">> >>],
     [ident |-> <<"S", "i", "r", "e", "n">>, rename |-> <<>>],
     [ident |-> <<"S", "l", "i", "d", "e", "W", "h", "i", "s", "t", "l", "e">>, rename |-> << <<"s", "l", "i", "d", "e", " ", "w", "h", "i", "s", "t", "l", "e">> >>],
     [ident |-> <<"T", "h", "u", "n", "d", "e", "r", "S", "h", "e", "e", "t">>, rename |-> << <<"t", "h", "u", "n", "d", "e", "r", " ", "s", "h", "e", "e", "t">> >>],
     [ident |-> <<"W", "i", "n", "d", "M", "a", "c", "h", "i", "n", "e">>, rename |-> << <<"w", "i", "n", "d", " ", "m", "a", "c", "h", "i", "n", "e">> >>],
     [ident |-> <<"W", "i", "n", "d", "W", "h", "i", "s", "t", "l", "e">>, rename |-> << <<"w", "i", "n", "d", " ", "w", "h", "i", "s", "t", "l", "e">> >>] >>]

\* simple_types.rs:405-417  pub enum EnclosureShape
EnclosureShape ==
  [kind |-> "enum", name |-> "EnclosureShape", rename_all |-> "lowercase",
   variants |-> <<
     [ident |-> <<"R", "e", "c", "t", "a", "n", "g", "l", "e">>, rename |-> <<>>],
     [ident |-> <<"S", "q", "u", "a", "r", "e">>, rename |-> <<>>],
     [ident |-> <<"O", "v", "a", "l">>, rename |-> <<>>],
     [ident |-> <<"C", "i", "r", "c", "l", "e">>, rename |-> <<>>],
     [ident |-> <<"B", "r", "a", "c", "k", "e", "t">>, rename |-> <<>>],
     [ident |-> <<"T", "r", "i", "a", "n", "g", "l", "e">>, rename |-> <<>>],
     [ident |-> <<"D", "i", "a", "m", "o", "n", "d">>, rename |-> <<>>],
     [ident |-> <<"N", "o", "n", "e">>, rename |-> <<>>] >>]

\* simple_types.rs:419-426  pub enum Fan
Fan ==
  [kind |-> "enum", name |-> "Fan", rename_all |-> "lowercase",
   variants |-> <<
     [ident |-> <<"A", "c", "c", "e", "l">>, rename |-> <<>>],
     [ident |-> <<"R", "i", "t">>, rename |-> <<>>],
     [ident |-> <<"N", "o", "n", "e">>, rename |-> <<>>] >>]

\* simple_types.rs:428-435  pub enum FermataShape
FermataShape ==
  [kind |-> "enum", name |-> "FermataShape", rename_all |-> "lowercase",
   variants |-> <<
     [ident |-> <<"N", "o", "r", "m", "a", "l">>, rename |-> <<>>],
     [ident |-> <<"A", "n", "g", "l", "e", "d">>, rename |-> <<>>],
     [ident |-> <<"S", "q", "u", "a", "r", "e">>, rename |-> <<>>] >>]

\* simple_types.rs:437-443  pub enum FontStyle
FontStyle ==
  [kind |-> "enum", name |-> "FontStyle", rename_all |-> "lowercase",
   variants |-> <<
     [ident |-> <<"N", "o", "r", "m", "a", "l">>, rename |-> <<>>],
     [ident |-> <<"I", "t", "a", "l", "i", "c">>, rename |-> <<>>] >>]

\* simple_types.rs:445-451  pub enum FontWeight
FontWeight ==
  [kind |-> "enum", name |-> "FontWeight", rename_all |-> "lowercase",
   variants |-> <<
     [ident |-> <<"N", "o", "r", "m", "a", "l">>, rename |-> <<>>],
     [ident |-> <<"B", "o", "l", "d">>, rename |-> <<>>] >>]

\* simple_types.rs:453-458  pub enum Glass
Glass ==
  [kind |-> "enum", name |-> "Glass", rename_all |-> "none",
   variants |-> <<
     [ident |-> <<"W", "i", "n", "d", "C", "h", "i", "m", "e", "s">>, rename |-> << <<"w", "i", "n", "d", " ", "c", "h", "i", "m", "e", "s">> >>] >>]

\* simple_types.rs:460-468  pub enum GroupBarlineValue
GroupBarlineValue ==
  [kind |-> "enum", name |-> "GroupBarlineValue", rename_all |-> "lowercase",
   variants |-> <<
     [ident |-> <<"Y", "e", "s">>, rename |-> <<>>],
     [ident |-> <<"N", "o">>, rename |-> <<>>],
     [ident |-> <<"M", "e", "n", "s", "u", "r", "s", "t", "r", "i", "c", "h">>, rename |-> << <<"M", "e", "n", "s", "u", "r", "s", "t", "r", "i", "c", "h">> >>] >>]

\* simple_types.rs:470-479  pub enum GroupSymbolValue
GroupSymbolValue ==
  [kind |-> "enum", name |-> "GroupSymbolValue", rename_all |-> "lowercase",
   variants |-> <<
     [ident |-> <<"N", "o", "n", "e">>, rename |-> <<>>],
     [ident |-> <<"B", "r", "a", "c", "e">>, rename |-> <<>>],
     [ident |-> <<"L", "i", "n", "e">>, rename |-> <<>>],
     [ident |-> <<"B", "r", "a", "c", "k", "e", "t">>, rename |-> <<>>],
     [ident |-> <<"S", "q", "u", "a", "r", "e">>, rename |-> <<>>] >>]

\* simple_types.rs:481-502  pub enum HandbellValue
HandbellValue ==
  [kind |-> "enum", name |-> "HandbellValue", rename_all |-> "lowercase",
   variants |-> <<
     [ident |-> <<"D", "a", "m", "p">>, rename |-> <<>>],
     [ident |-> <<"E", "c", "h", "o">>, rename |-> <<>>],
     [ident |-> <<"G", "y", "r", "o">>, rename |-> <<>>],
     [ident |-> <<"H", "a", "n", "d", "M", "a", "r", "t", "e", "l", "l", "a", "t", "o">>, rename |-> << <<"h", "a", "n", "d", " ", "m", "a", "r", "t", "e", "l", "l", "a", "t", "o">> >>],
     [ident |-> <<"M", "a", "l", "l", "e", "t", "L", "i", "f", "t">>, rename |-> << <<"m", "a", "l", "l", "e", "t", " ", "l", "i", "f", "t">> >>],
     [ident |-> <<"M", "a", "l", "l", "e", "t", "T", "a", "b", "l", "e">>, rename |-> << <<"m", "a", "l", "l", "e", "t", " ", "t", "a", "b", "l", "e">> >>],
     [ident |-> <<"M", "a", "r", "t", "e", "l", "l", "a", "t", "o">>, rename |-> <<>>],
     [ident |-> <<"M", "a", "r", "t", "e", "l", "l", "a", "t", "o", "L", "i", "f", "t">>, rename |-> << <<"m", "a", "r", "t", "e", "l", "l", "a", "t", "o", " ", "l", "i", "f", "t">> >>],
     [ident |-> <<"M", "u", "t", "e", "d", "M", "a", "r", "t", "e", "l", "l", "a", "t", "o">>, rename |-> << <<"m", "u", "t", "e", "d", " ", "m", "a", "r", "t", "e", "l", "l", "a", "t", "o">> >>],
     [ident |-> <<"P", "l", "u", "c", "k", "L", "i", "f", "t">>, rename |-> << <<"p", "l", "u", "c", "k", " ", "l", "i", "f", "t">> >>],
     [ident |-> <<"S", "w", "i", "n", "g">>, rename |-> <<>>] >>]

\* simple_types.rs:504-511  pub enum HarmonyType
HarmonyType ==
  [kind |-> "enum", name |-> "HarmonyType", rename_all |-> "lowercase",
   variants |-> <<
     [ident |-> <<"E", "x", "p", "l", "i", "c", "i", "t">>, rename |-> <<>>],
     [ident |-> <<"I", "m", "p", "l", "i", "e", "d">>, rename |-> <<>>],
     [ident |-> <<"A", "l", "t", "e", "r", "n", "a", "t", "e">>, rename |-> <<>>] >>]

\* simple_types.rs:513-521  pub enum HoleClosedLocation
HoleClosedLocation ==
  [kind |-> "enum", name |-> "HoleClosedLocation", rename_all |-> "lowercase",
   variants |-> <<
     [ident |-> <<"R", "i", "g", "h", "t">>, rename |-> <<>>],
     [ident |-> <<"B", "o", "t", "t", "o", "m">>, rename |-> <<>>],
     [ident |-> <<"L", "e", "f", "t">>, rename |-> <<>>],
     [ident |-> <<"T", "o", "p">>, rename |-> <<>>] >>]

\* simple_types.rs:523-530  pub enum HoleClosedValue
HoleClosedValue ==
  [kind |-> "enum", name |-> "HoleClosedValue", rename_all |-> "lowercase",
   variants |-> <<
     [ident |-> <<"Y", "e", "s">>, rename |-> <<>>],
     [ident |-> <<"N", "o">>, rename |-> <<>>],
     [ident |-> <<"H", "a", "l", "f">>, rename |-> <<>>] >>]

\* simple_types.rs:532-580  pub enum KindValue
KindValue ==
  [kind |-> "enum", name |-> "KindValue", rename_all |-> "kebab-case",
   variants |-> <<
     [ident |-> <<"M", "a", "j", "o", "r">>, rename |-> <<>>],
     [ident |-> <<"M", "i", "n", "o", "r">>, rename |-> <<>>],
     [ident |-> <<"A", "u", "g", "m", "e", "n", "t", "e", "d">>, rename |-> <<>>],
     [ident |-> <<"D", "i", "m", "i", "n", "i", "s", "h", "e", "d">>, rename |-> <<>>],
     [ident |-> <<"D", "o", "m", "i", "n", "a", "n", "t">>, rename |-> <<>>],
     [ident |-> <<"M", "a", "j", "o", "r", "S", "e", "v", "e", "n", "t", "h">>, rename |-> <<>>],
     [ident |-> <<"M", "i", "n", "o", "r", "S", "e", "v", "e", "n", "t", "h">>, rename |-> <<>>],
     [ident |-> <<"D", "i", "m", "i", "n", "i", "s", "h", "e", "d", "S", "e", "v", "e", "n", "t", "h">>, rename |-> <<>>],
     [ident |-> <<"A", "u", "g", "m", "e", "n", "t", "e", "d", "S", "e", "v", "e", "n", "t", "h">>, rename |-> <<>>],
     [ident |-> <<"H", "a", "l", "f", "D", "i", "m", "i", "n", "i", "s", "h", "e", "d">>, rename |-> <<>>],
     [ident |-> <<"M", "a", "j", "o", "r", "M", "i", "n", "o", "r">>, rename |-> <<>>],
     [ident |-> <<"M", "a", "j", "o", "r", "S", "i", "x", "t", "h">>, rename |-> <<>>],
     [ident |-> <<"M", "i", "n", "o", "r", "S", "i", "x", "t", "h">>, rename |-> <<>>],
     [ident |-> <<"D", "o", "m", "i", "n", "a", "n", "t", "R", "i", "n", "t", "h">>, rename |-> <<>>],
     [ident |-> <<"M", "a", "j", "o", "r", "R", "i", "n", "t", "h">>, rename |-> <<>>],
     [ident |-> <<"M", "i", "n", "o", "r", "R", "i", "n", "t", "h">>, rename |-> <<>>],
     [ident |-> <<"D", "o", "m", "i", "n", "a", "n", "t", "1", "1", "t", "h">>, rename |-> << <<"d", "o", "m", "i", "n", "a", "n", "t", "-", "1", "1", "t", "h">> >>],
     [ident |-> <<"M", "a", "j", "o", "r", "1", "1", "t", "h">>, rename |-> << <<"m", "a", "j", "o", "r", "-", "1", "1", "t", "h">> >>],
     [ident |-> <<"M", "i", "n", "o", "r", "1", "1", "t", "h">>, rename |-> << <<"m", "i", "n", "o", "r", "-", "1", "1", "t", "h">> >>],
     [ident |-> <<"D", "o", "m", "i", "n", "a", "n", "t", "1", "3", "t", "h">>, rename |-> << <<"d", "o", "m", "i", "n", "a", "n", "t", "-", "1", "3", "t", "h">> >>],
     [ident |-> <<"M", "a", "j", "o", "r", "1", "3", "t", "h">>, rename |-> << <<"m", "a", "j", "o", "r", "-", "1", "3", "t", "h">> >>],
     [ident |-> <<"M", "i", "n", "o", "r", "1", "3", "t", "h">>, rename |-> << <<"m", "i", "n", "o", "r", "-", "1", "3", "t", "h">> >>],
     [ident |-> <<"S", "u", "s", "p", "e", "n", "d", "e", "d", "S", "e", "c", "o", "n", "d">>, rename |-> <<>>],
     [ident |-> <<"S", "u", "s", "p", "e", "n", "d", "e", "d", "F", "o", "u", "r", "t", "h">>, rename |-> <<>>],
     [ident |-> <<"N", "e", "a", "p", "o", "l", "i", "t", "a", "n">>, rename |-> << <<"N", "e", "a", "p", "o", "l", "i", "t", "a", "n">> >>],
     [ident |-> <<"I", "t", "a", "l", "i", "a", "n">>, rename |-> << <<"I", "t", "a", "l", "i", "a", "n">> >>],
     [ident |-> <<"F", "r", "e", "n", "c", "h">>, rename |-> << <<"F", "r", "e", "n", "c", "h">> >>],
     [ident |-> <<"G", "e", "r", "m", "a", "n">>, rename |-> << <<"G", "e", "r", "m", "a", "n">> >>],
     [ident |-> <<"P", "e", "d", "a", "l">>, rename |-> <<>>],
     [ident |-> <<"P", "o", "w", "e", "r">>, rename |-> <<>>],
     [ident |-> <<"T", "r", "i", "s", "t", "a", "n">>, rename |-> << <<"T", "r", "i", "s", "t", "a", "n">> >>],
     [ident |-> <<"O", "t", "h", "e", "r">>, rename |-> <<>>],
     [ident |-> <<"N", "o", "n", "e">>, rename |-> <<>>] >>]

\* simple_types.rs:582-589  pub enum LeftCenterRight
LeftCenterRight ==
  [kind |-> "enum", name |-> "LeftCenterRight", rename_all |-> "lowercase",
   variants |-> <<
     [ident |-> <<"L", "e", "f", "t">>, rename |-> <<>>],
     [ident |-> <<"C", "e", "n", "t", "e", "r">>, rename |-> <<>>],
     [ident |-> <<"R", "i", "g", "h", "t">>, rename |-> <<>>] >>]

\* simple_types.rs:591-597  pub enum LeftRight
LeftRight ==
  [kind |-> "enum", name |-> "LeftRight", rename_all |-> "lowercase",
   variants |-> <<
     [ident |-> <<"L", "e", "f", "t">>, rename |-> <<>>],
     [ident |-> <<"R", "i", "g", "h", "t">>, rename |-> <<>>] >>]

\* simple_types.rs:599-608  pub enum LineEnd
LineEnd ==
  [kind |-> "enum", name |-> "LineEnd", rename_all |-> "lowercase",
   variants |-> <<
     [ident |-> <<"U", "p">>, rename |-> <<>>],
     [ident |-> <<"D", "o", "w", "n">>, rename |-> <<>>],
     [ident |-> <<"B", "o", "t", "h">>, rename |-> <<>>],
     [ident |-> <<"A", "r", "r", "o", "w">>, rename |-> <<>>],
     [ident |-> <<"N", "o", "n", "e">>, rename |-> <<>>] >>]

\* simple_types.rs:610-616  pub enum LineShape
LineShape ==
  [kind |-> "enum", name |-> "LineShape", rename_all |-> "lowercase",
   variants |-> <<
     [ident |-> <<"S", "t", "r", "a", "i", "g", "h", "t">>, rename |-> <<>>],
     [ident |-> <<"C", "u", "r", "v", "e", "d">>, rename |-> <<>>] >>]

\* simple_types.rs:618-626  pub enum LineType
LineType ==
  [kind |-> "enum", name |-> "LineType", rename_all |-> "lowercase",
   variants |-> <<
     [ident |-> <<"S", "o", "l", "i", "d">>, rename |-> <<>>],
     [ident |-> <<"D", "a", "s", "h", "e", "d">>, rename |-> <<>>],
     [ident |-> <<"D", "o", "t", "t", "e", "d">>, rename |-> <<>>],
     [ident |-> <<"W", "a", "v", "y">>, rename |-> <<>>] >>]

\* simple_types.rs:628-635  pub enum MarginType
MarginType ==
  [kind |-> "enum", name |-> "MarginType", rename_all |-> "lowercase",
   variants |-> <<
     [ident |-> <<"O", "d", "d">>, rename |-> <<>>],
     [ident |-> <<"E", "v", "e", "n">>, rename |-> <<>>],
     [ident |-> <<"B", "o", "t", "h">>, rename |-> <<>>] >>]

\* simple_types.rs:637-644  pub enum MeasureNumbering
MeasureNumbering ==
  [kind |-> "enum", name |-> "MeasureNumbering", rename_all |-> "lowercase",
   variants |-> <<
     [ident |-> <<"N", "o", "n", "e">>, rename |-> <<>>],
     [ident |-> <<"M", "e", "a", "s", "u", "r", "e">>, rename |-> <<>>],
     [ident |-> <<"S", "y", "s", "t", "e", "m">>, rename |-> <<>>] >>]

\* Membrane with the label of SnareDrumSnaresOff cut to "bass drum", the label
\* BassDrum already carries.
Membrane_DuplicateLabel ==
  [kind |-> "enum", name |-> "Membrane", rename_all |-> "lowercase",
   variants |-> <<
     [ident |-> <<"B", "a", "s", "s", "D", "r", "u", "m">>, rename |-> << <<"b", "a", "s", "s", " ", "d", "r", "u", "m">> >>],
     [ident |-> <<"B", "a", "s", "s", "D", "r", "u", "m", "O", "n", "S", "i", "d", "e">>, rename |-> << <<"b", "a", "s", "s", " ", "d", "r", "u", "m", " ", "o", "n", " ", "s", "i", "d", "e">> >>],
     [ident |-> <<"B", "o", "n", "g", "o", "s">>, rename |-> << <<"b", "o", "n", "g", "o", "s">> >>],
     [ident |-> <<"C", "o", "n", "g", "a", "D", "r", "u", "m">>, rename |-> << <<"c", "o", "n", "g", "a", " ", "d", "r", "u", "m">> >>],
     [ident |-> <<"G", "o", "b", "l", "e", "t", "D", "r", "u", "m">>, rename |-> << <<"g", "o", "b", "l", "e", "t", " ", "d", "r", "u", "m">> >>],
     [ident |-> <<"M", "i", "l", "i", "t", "a", "r", "y", "D", "r", "u", "m">>, rename |-> << <<"m", "i", "l", "i", "t", "a", "r", "y", " ", "d", "r", "u", "m">> >>],
     [ident |-> <<"S", "n", "a", "r", "e", "D", "r", "u", "m">>, rename |-> << <<"s", "n", "a", "r", "e", " ", "d", "r", "u", "m">> >>],
     [ident |-> <<"S", "n", "a", "r", "e", "D", "r", "u", "m", "S", "n", "a", "r", "e", "s", "O", "f", "f">>, rename |-> << <<"b", "a", "s", "s", " ", "d", "r", "u", "m">> >>],
     [ident |-> <<"T", "a", "m", "b", "o", "u", "r", "i", "n", "e">>, rename |-> << <<"t", "a", "m", "b", "o", "u", "r", "i", "n", "e">> >>],
     [ident |-> <<"T", "e", "n", "o", "r", "D", "r", "u", "m">>, rename |-> << <<"t", "e", "n", "o", "r", " ", "d", "r", "u", "m">> >>],
     [ident |-> <<"T", "i", "m", "b", "a", "l", "e", "s">>, rename |-> <<>>],
     [ident |-> <<"T", "o", "m", "t", "o", "m">>, rename |-> <<>>] >>]

\* simple_types.rs:646-672  pub enum Membrane
Membrane ==
  [kind |-> "enum", name |-> "Membrane", rename_all |-> "lowercase",
   variants |-> <<
     [ident |-> <<"B", "a", "s", "s", "D", "r", "u", "m">>, rename |-> << <<"b", "a", "s", "s", " ", "d", "r", "u", "m">> >>],
     [ident |-> <<"B", "a", "s", "s", "D", "r", "u", "m", "O", "n", "S", "i", "d", "e">>, rename |-> << <<"b", "a", "s", "s", " ", "d", "r", "u", "m", " ", "o", "n", " ", "s", "i", "d", "e">> >>],
     [ident |-> <<"B", "o", "n", "g", "o", "s">>, rename |-> << <<"b", "o", "n", "g", "o", "s">> >>],
     [ident |-> <<"C", "o", "n", "g", "a", "D", "r", "u", "m">>, rename |-> << <<"c", "o", "n", "g", "a", " ", "d", "r", "u", "m">> >>],
     [ident |-> <<"G", "o", "b", "l", "e", "t", "D", "r", "u", "m">>, rename |-> << <<"g", "o", "b", "l", "e", "t", " ", "d", "r", "u", "m">> >>],
     [ident |-> <<"M", "i", "l", "i", "t", "a", "r", "y", "D", "r", "u", "m">>, rename |-> << <<"m", "i", "l", "i", "t", "a", "r", "y", " ", "d", "r", "u", "m">> >>],
     [ident |-> <<"S", "n", "a", "r", "e", "D", "r", "u", "m">>, rename |-> << <<"s", "n", "a", "r", "e", " ", "d", "r", "u", "m">> >>],
     [ident |-> <<"S", "n", "a", "r", "e", "D", "r", "u", "m", "S", "n", "a", "r", "e", "s", "O", "f", "f">>, rename |-> << <<"b", "a", "s", "s", " ", "d", "r", "u", "m", " ", "s", "n", "a", "r", "e", "s", " ", "o", "f", "f">> >>],
     [ident |-> <<"T", "a", "m", "b", "o", "u", "r", "i", "n", "e">>, rename |-> << <<"t", "a", "m", "b", "o", "u", "r", "i", "n", "e">> >>],
     [ident |-> <<"T", "e", "n", "o", "r", "D", "r", "u", "m">>, rename |-> << <<"t", "e", "n", "o", "r", " ", "d", "r", "u", "m">> >>],
     [ident |-> <<"T", "i", "m", "b", "a", "l", "e", "s">>, rename |-> <<>>],
     [ident |-> <<"T", "o", "m", "t", "o", "m">>, rename |-> <<>>] >>]

\* simple_types.rs:674-713  pub enum Metal
Metal ==
  [kind |-> "enum", name |-> "Metal", rename_all |-> "kebab-case",
   variants |-> <<
     [ident |-> <<"A", "l", "m", "g", "l", "o", "c", "k", "e", "n">>, rename |-> <<>>],
     [ident |-> <<"B", "e", "l", "l">>, rename |-> <<>>],
     [ident |-> <<"B", "e", "l", "l", "P", "l", "a", "t", "e">>, rename |-> << <<"b", "e", "l", "l", " ", "p", "l", "a", "t", "e">> >>],
     [ident |-> <<"B", "r", "a", "k", "e", "D", "r", "u", "m">>, rename |-> << <<"b", "r", "a", "k", "e", " ", "d", "r", "u", "m">> >>],
     [ident |-> <<"C", "h", "i", "n", "e", "s", "e", "C", "y", "m", "b", "a", "l">>, rename |-> << <<"C", "h", "i", "n", "e", "s", "e", " ", "c", "y", "m", "b", "a", "l">> >>],
     [ident |-> <<"C", "o", "w", "b", "e", "l", "l">>, rename |-> <<>>],
     [ident |-> <<"C", "r", "a", "s", "h", "C", "y", "m", "b", "a", "l", "s">>, rename |-> << <<"c", "r", "a", "s", "h", " ", "c", "y", "m", "b", "a", "l", "s">> >>],
     [ident |-> <<"C", "r", "o", "t", "a", "l", "e">>, rename |-> <<>>],
     [ident |-> <<"C", "y", "m", "b", "a", "l", "T", "o", "n", "g", "s">>, rename |-> << <<"c", "y", "m", "b", "a", "l", " ", "t", "o", "n", "g", "s">> >>],
     [ident |-> <<"D", "o", "o", "m", "e", "d", "G", "o", "n", "g">>, rename |-> << <<"d", "o", "o", "m", "e", "d", " ", "g", "o", "n", "g">> >>],
     [ident |-> <<"F", "i", "n", "g", "e", "r", "C", "y", "m", "b", "a", "l", "s">>, rename |-> << <<"f", "i", "n", "g", "e", "r", " ", "c", "y", "m", "b", "a", "l", "s">> >>],
     [ident |-> <<"F", "l", "e", "x", "a", "t", "o", "n", "e">>, rename |-> <<>>],
     [ident |-> <<"G", "o", "n", "g">>, rename |-> <<>>],
     [ident |-> <<"H", "i", "H", "a", "t">>, rename |-> <<>>],
     [ident |-> <<"H", "i", "g", "h", "H", "a", "t", "C", "y", "m", "b", "a", "l", "s">>, rename |-> <<>>],
     [ident |-> <<"H", "a", "n", "d", "b", "e", "l", "l">>, rename |-> <<>>],
     [ident |-> <<"S", "i", "s", "t", "r", "u", "m">>, rename |-> <<>>],
     [ident |-> <<"S", "i", "z", "z", "l", "e", "C", "y", "m", "b", "a", "l">>, rename |-> << <<"s", "i", "z", "z", "l", "e", " ", "c", "y", "m", "b", "a", "l">> >>],
     [ident |-> <<"S", "l", "e", "i", "g", "h", "B", "e", "l", "l", "s">>, rename |-> << <<"s", "l", "e", "i", "g", "h", " ", "b", "e", "l", "l", "s">> >>],
     [ident |-> <<"S", "u", "s", "p", "e", "n", "d", "e", "d", "C", "y", "m", "b", "a", "l">>, rename |-> << <<"s", "u", "s", "p", "e", "n", "d", "e", "d", " ", "c", "y", "m", "b", "a", "l">> >>],
     [ident |-> <<"T", "a", "m", "T", "a", "m">>, rename |-> << <<"t", "a", "m", " ", "t", "a", "m">> >>],
     [ident |-> <<"T", "r", "i", "a", "n", "g", "l", "e">>, rename |-> <<>>],
     [ident |-> <<"V", "i", "e", "t", "n", "a", "m", "e", "s", "e", "H", "a", "t">>, rename |-> << <<"V", "i", "e", "t", "n", "a", "m", "e", "s", "e", " ", "h", "a", "t">> >>] >>]

\* simple_types.rs:715-734  pub enum Mute
Mute ==
  [kind |-> "enum", name |-> "Mute", rename_all |-> "kebab-case",
   variants |-> <<
     [ident |-> <<"O", "n">>, rename |-> <<>>],
     [ident |-> <<"O", "f", "f">>, rename |-> <<>>],
     [ident |-> <<"S", "t", "r", "a", "i", "g", "h", "t">>, rename |-> <<>>],
     [ident |-> <<"C", "u", "p">>, rename |-> <<>>],
     [ident |-> <<"H", "a", "r", "m", "o", "n", "N", "o", "S", "t", "e", "m">>, rename |-> <<>>],
     [ident |-> <<"H", "a", "r", "m", "o", "n", "S", "t", "e", "m">>, rename |-> <<>>],
     [ident |-> <<"B", "u", "c", "k", "e", "t">>, rename |-> <<>>],
     [ident |-> <<"P", "l", "u", "n", "g", "e", "r">>, rename |-> <<>>],
     [ident |-> <<"H", "a", "t">>, rename |-> <<>>],
     [ident |-> <<"S", "o", "l", "o", "t", "o", "n", "e">>, rename |-> <<>>],
     [ident |-> <<"P", "r", "a", "c", "t", "i", "c", "e">>, rename |-> <<>>],
     [ident |-> <<"S", "t", "o", "p", "M", "u", "t", "e">>, rename |-> <<>>],
     [ident |-> <<"S", "t", "o", "p", "H", "a", "n", "d">>, rename |-> <<>>],
     [ident |-> <<"E", "c", "h", "o">>, rename |-> <<>>],
     [ident |-> <<"P", "a", "l", "m">>, rename |-> <<>>] >>]

\* simple_types.rs:736-773  pub enum NoteHeadValue
NoteHeadValue ==
  [kind |-> "enum", name |-> "NoteHeadValue", rename_all |-> "kebab-case",
   variants |-> <<
     [ident |-> <<"S", "l", "a", "s", "h">>, rename |-> <<>>],
     [ident |-> <<"T", "r", "i", "a", "n", "g", "l", "e">>, rename |-> <<>>],
     [ident |-> <<"D", "i", "a", "m", "o", "n", "d">>, rename |-> <<>>],
     [ident |-> <<"S", "q", "u", "a", "r", "e">>, rename |-> <<>>],
     [ident |-> <<"C", "r", "o", "s", "s">>, rename |-> <<>>],
     [ident |-> <<"X">>, rename |-> <<>>],
     [ident |-> <<"C", "i", "r", "c", "l", "e", "X">>, rename |-> <<>>],
     [ident |-> <<"I", "n", "v", "e", "r", "t", "e", "d", "T", "r", "i", "a", "n", "g", "l", "e">>, rename |-> << <<"i", "n", "v", "e", "r", "t", "e", "d", " ", "t", "r", "i", "a", "n", "g", "l", "e">> >>],
     [ident |-> <<"A", "r", "r", "o", "w", "D", "o", "w", "n">>, rename |-> << <<"a", "r", "r", "o", "w", " ", "d", "o", "w", "n">> >>],
     [ident |-> <<"A", "r", "r", "o", "w", "U", "p">>, rename |-> << <<"a", "r", "r", "o", "w", " ", "u", "p">> >>],
     [ident |-> <<"S", "l", "a", "s", "h", "e", "d">>, rename |-> <<>>],
     [ident |-> <<"B", "a", "c", "k", "S", "l", "a", "s", "h", "e", "d">>, rename |-> << <<"b", "a", "c", "k", " ", "s", "l", "a", "s", "h", "e", "d">> >>],
     [ident |-> <<"N", "o", "r", "m", "a", "l">>, rename |-> <<>>],
     [ident |-> <<"C", "l", "u", "s", "t", "e", "r">>, rename |-> <<>>],
     [ident |-> <<"C", "i", "r", "c", "l", "e", "D", "o", "t">>, rename |-> << <<"c", "i", "r", "c", "l", "e", " ", "d", "o", "t">> >>],
     [ident |-> <<"L", "e", "f", "t", "T", "r", "i", "a", "n", "g", "l", "e">>, rename |-> << <<"l", "e", "f", "t", " ", "t", "r", "i", "a", "n", "g", "l", "e">> >>],
     [ident |-> <<"R", "e", "c", "t", "a", "n", "g", "l", "e">>, rename |-> <<>>],
     [ident |-> <<"N", "o", "n", "e">>, rename |-> <<>>],
     [ident |-> <<"D", "o">>, rename |-> <<>>],
     [ident |-> <<"R", "e">>, rename |-> <<>>],
     [ident |-> <<"M", "i">>, rename |-> <<>>],
     [ident |-> <<"F", "a">>, rename |-> <<>>],
     [ident |-> <<"F", "a", "U", "p">>, rename |-> << <<"f", "a", " ", "u", "p">> >>],
     [ident |-> <<"S", "o">>, rename |-> <<>>],
     [ident |-> <<"L", "a">>, rename |-> <<>>],
     [ident |-> <<"T", "i">>, rename |-> <<>>] >>]

\* simple_types.rs:775-782  pub enum NoteSizeType
NoteSizeType ==
  [kind |-> "enum", name |-> "NoteSizeType", rename_all |-> "lowercase",
   variants |-> <<
     [ident |-> <<"C", "u", "e">>, rename |-> <<>>],
     [ident |-> <<"G", "r", "a", "c", "e">>, rename |-> <<>>],
     [ident |-> <<"L", "a", "r", "g", "e">>, rename |-> <<>>] >>]

\* simple_types.rs:784-809  pub enum NoteTypeValue
NoteTypeValue ==
  [kind |-> "enum", name |-> "NoteTypeValue", rename_all |-> "lowercase",
   variants |-> <<
     [ident |-> <<"_", "1", "0", "2", "4", "t", "h">>, rename |-> << <<"1", "0", "2", "4", "t", "h">> >>],
     [ident |-> <<"_", "5", "1", "2", "t", "h">>, rename |-> << <<"5", "1", "2", "t", "h">> >>],
     [ident |-> <<"_", "2", "5", "6", "t", "h">>, rename |-> << <<"2", "5", "6", "t", "h">> >>],
     [ident |-> <<"_", "1", "2", "8", "t", "h">>, rename |-> << <<"1", "2", "8", "t", "h">> >>],
     [ident |-> <<"_", "6", "4", "t", "h">>, rename |-> << <<"6", "4", "t", "h">> >>],
     [ident |-> <<"_", "3", "2", "t", "h">>, rename |-> << <<"3", "2", "t", "h">> >>],
     [ident |-> <<"_", "1", "6", "t", "h">>, rename |-> << <<"1", "6", "t", "h">> >>],
     [ident |-> <<"E", "i", "g", "h", "t">>, rename |-> <<>>],
     [ident |-> <<"Q", "u", "a", "r", "t", "e", "r">>, rename |-> <<>>],
     [ident |-> <<"H", "a", "l", "f">>, rename |-> <<>>],
     [ident |-> <<"W", "h", "o", "l", "e">>, rename |-> <<>>],
     [ident |-> <<"B", "r", "e", "v", "e">>, rename |-> <<>>],
     [ident |-> <<"L", "o", "n", "g">>, rename |-> <<>>],
     [ident |-> <<"M", "a", "x", "i", "m", "a">>, rename |-> <<>>] >>]

\* simple_types.rs:819-825  pub enum OnOff
OnOff ==
  [kind |-> "enum", name |-> "OnOff", rename_all |-> "lowercase",
   variants |-> <<
     [ident |-> <<"O", "n">>, rename |-> <<>>],
     [ident |-> <<"O", "f", "f">>, rename |-> <<>>] >>]

\* simple_types.rs:827-833  pub enum OverUnder
OverUnder ==
  [kind |-> "enum", name |-> "OverUnder", rename_all |-> "lowercase",
   variants |-> <<
     [ident |-> <<"O", "v", "e", "r">>, rename |-> <<>>],
     [ident |-> <<"U", "n", "d", "e", "r">>, rename |-> <<>>] >>]

\* simple_types.rs:835-847  pub enum Pitched
Pitched ==
  [kind |-> "enum", name |-> "Pitched", rename_all |-> "lowercase",
   variants |-> <<
     [ident |-> <<"C", "h", "i", "m", "e", "s">>, rename |-> <<>>],
     [ident |-> <<"G", "l", "o", "c", "k", "e", "n", "s", "p", "i", "e", "l">>, rename |-> <<>>],
     [ident |-> <<"M", "a", "l", "l", "e", "t">>, rename |-> <<>>],
     [ident |-> <<"M", "a", "r", "i", "m", "b", "a">>, rename |-> <<>>],
     [ident |-> <<"T", "u", "b", "u", "l", "a", "r", "C", "h", "i", "m", "e", "s">>, rename |-> << <<"t", "u", "b", "u", "l", "a", "r", " ", "c", "h", "i", "m", "e", "s">> >>],
     [ident |-> <<"V", "i", "b", "r", "a", "p", "h", "o", "n", "e">>, rename |-> <<>>],
     [ident |-> <<"X", "y", "l", "o", "p", "h", "o", "n", "e">>, rename |-> <<>>] >>]

\* simple_types.rs:857-867  pub enum PrincipalVoceSymbol
PrincipalVoceSymbol ==
  [kind |-> "enum", name |-> "PrincipalVoceSymbol", rename_all |-> "lowercase",
   variants |-> <<
     [ident |-> <<"H", "a", "u", "p", "t", "s", "t", "i", "m", "m", "e">>, rename |-> << <<"H", "a", "u", "p", "t", "s", "t", "i", "m", "m", "e">> >>],
     [ident |-> <<"N", "e", "b", "e", "n", "s", "t", "i", "m", "m", "e">>, rename |-> << <<"N", "e", "b", "e", "n", "s", "t", "i", "m", "m", "e">> >>],
     [ident |-> <<"P", "l", "a", "i", "n">>, rename |-> <<>>],
     [ident |-> <<"N", "o", "n", "e">>, rename |-> <<>>] >>]

\* simple_types.rs:869-876  pub enum RightLeftMiddle
RightLeftMiddle ==
  [kind |-> "enum", name |-> "RightLeftMiddle", rename_all |-> "lowercase",
   variants |-> <<
     [ident |-> <<"R", "i", "g", "h", "t">>, rename |-> <<>>],
     [ident |-> <<"L", "e", "f", "t">>, rename |-> <<>>],
     [ident |-> <<"M", "i", "d", "d", "l", "e">>, rename |-> <<>>] >>]

\* simple_types.rs:878-888  pub enum SemiPitched
SemiPitched ==
  [kind |-> "enum", name |-> "SemiPitched", rename_all |-> "kebab-case",
   variants |-> <<
     [ident |-> <<"H", "i", "g", "h">>, rename |-> <<>>],
     [ident |-> <<"M", "e", "d", "i", "u", "m", "H", "i", "g", "h">>, rename |-> <<>>],
     [ident |-> <<"M", "e", "d", "i", "u", "m">>, rename |-> <<>>],
     [ident |-> <<"M", "e", "d", "i", "u", "m", "L", "o", "w">>, rename |-> <<>>],
     [ident |-> <<"L", "o", "w">>, rename |-> <<>>],
     [ident |-> <<"V", "e", "r", "y", "L", "o", "w">>, rename |-> <<>>] >>]

\* simple_types.rs:890-896  pub enum ShowFrets
ShowFrets ==
  [kind |-> "enum", name |-> "ShowFrets", rename_all |-> "lowercase",
   variants |-> <<
     [ident |-> <<"N", "u", "m", "b", "e", "r", "s">>, rename |-> <<>>],
     [ident |-> <<"L", "e", "t", "t", "e", "r", "s">>, rename |-> <<>>] >>]

\* simple_types.rs:898-905  pub enum ShowTuplet
ShowTuplet ==
  [kind |-> "enum", name |-> "ShowTuplet", rename_all |-> "lowercase",
   variants |-> <<
     [ident |-> <<"A", "c", "t", "u", "a", "l">>, rename |-> <<>>],
     [ident |-> <<"B", "o", "t", "h">>, rename |-> <<>>],
     [ident |-> <<"N", "o", "n", "e">>, rename |-> <<>>] >>]

\* simple_types.rs:907-916  pub enum StaffType
StaffType ==
  [kind |-> "enum", name |-> "StaffType", rename_all |-> "lowercase",
   variants |-> <<
     [ident |-> <<"O", "s", "s", "i", "a">>, rename |-> <<>>],
     [ident |-> <<"C", "u", "e">>, rename |-> <<>>],
     [ident |-> <<"E", "d", "i", "t", "o", "r", "i", "a", "l">>, rename |-> <<>>],
     [ident |-> <<"R", "e", "g", "u", "l", "a", "r">>, rename |-> <<>>],
     [ident |-> <<"A", "l", "t", "e", "r", "n", "a", "t", "e">>, rename |-> <<>>] >>]

\* simple_types.rs:918-925  pub enum StartNote
StartNote ==
  [kind |-> "enum", name |-> "StartNote", rename_all |-> "lowercase",
   variants |-> <<
     [ident |-> <<"U", "p", "p", "e", "r">>, rename |-> <<>>],
     [ident |-> <<"M", "a", "i", "n">>, rename |-> <<>>],
     [ident |-> <<"B", "e", "l", "o", "w">>, rename |-> <<>>] >>]

\* simple_types.rs:927-933  pub enum StartStop
StartStop ==
  [kind |-> "enum", name |-> "StartStop", rename_all |-> "lowercase",
   variants |-> <<
     [ident |-> <<"S", "t", "a", "r", "t">>, rename |-> <<>>],
     [ident |-> <<"S", "t", "o", "p">>, rename |-> <<>>] >>]

\* simple_types.rs:935-943  pub enum StartStopChangeContinue
StartStopChangeContinue ==
  [kind |-> "enum", name |-> "StartStopChangeContinue", rename_all |-> "lowercase",
   variants |-> <<
     [ident |-> <<"S", "t", "a", "r", "t">>, rename |-> <<>>],
     [ident |-> <<"S", "t", "o", "p">>, rename |-> <<>>],
     [ident |-> <<"C", "h", "a", "n", "g", "e">>, rename |-> <<>>],
     [ident |-> <<"C", "o", "n", "t", "i", "n", "u", "e">>, rename |-> <<>>] >>]

\* simple_types.rs:945-952  pub enum StartStopContinue
StartStopContinue ==
  [kind |-> "enum", name |-> "StartStopContinue", rename_all |-> "lowercase",
   variants |-> <<
     [ident |-> <<"S", "t", "a", "r", "t">>, rename |-> <<>>],
     [ident |-> <<"S", "t", "o", "p">>, rename |-> <<>>],
     [ident |-> <<"C", "o", "n", "t", "i", "n", "u", "e">>, rename |-> <<>>] >>]

\* simple_types.rs:954-961  pub enum StartStopDiscontinue
StartStopDiscontinue ==
  [kind |-> "enum", name |-> "StartStopDiscontinue", rename_all |-> "lowercase",
   variants |-> <<
     [ident |-> <<"S", "t", "a", "r", "t">>, rename |-> <<>>],
     [ident |-> <<"S", "t", "o", "p">>, rename |-> <<>>],
     [ident |-> <<"D", "i", "s", "c", "o", "n", "t", "i", "n", "u", "e">>, rename |-> <<>>] >>]

\* simple_types.rs:963-970  pub enum StartStopSingle
StartStopSingle ==
  [kind |-> "enum", name |-> "StartStopSingle", rename_all |-> "lowercase",
   variants |-> <<
     [ident |-> <<"S", "t", "a", "r", "t">>, rename |-> <<>>],
     [ident |-> <<"S", "t", "o", "p">>, rename |-> <<>>],
     [ident |-> <<"S", "i", "n", "g", "l", "e">>, rename |-> <<>>] >>]

\* simple_types.rs:972-980  pub enum StemValue
StemValue ==
  [kind |-> "enum", name |-> "StemValue", rename_all |-> "lowercase",
   variants |-> <<
     [ident |-> <<"D", "o", "w", "n">>, rename |-> <<>>],
     [ident |-> <<"U", "p">>, rename |-> <<>>],
     [ident |-> <<"D", "o", "u", "b", "l", "e">>, rename |-> <<>>],
     [ident |-> <<"N", "o", "n", "e">>, rename |-> <<>>] >>]

\* simple_types.rs:982-992  pub enum Step
Step ==
  [kind |-> "enum", name |-> "Step", rename_all |-> "none",
   variants |-> <<
     [ident |-> <<"A">>, rename |-> <<>>],
     [ident |-> <<"B">>, rename |-> <<>>],
     [ident |-> <<"C">>, rename |-> <<>>],
     [ident |-> <<"D">>, rename |-> <<>>],
     [ident |-> <<"E">>, rename |-> <<>>],
     [ident |-> <<"F">>, rename |-> <<>>],
     [ident |-> <<"G">>, rename |-> <<>>] >>]

\* simple_types.rs:994-1004  pub enum StickLocation
StickLocation ==
  [kind |-> "enum", name |-> "StickLocation", rename_all |-> "lowercase",
   variants |-> <<
     [ident |-> <<"C", "e", "n", "t", "e", "r">>, rename |-> <<>>],
     [ident |-> <<"R", "i", "m">>, rename |-> <<>>],
     [ident |-> <<"C", "y", "m", "b", "a", "l", "l", "B", "e", "l", "l">>, rename |-> << <<"c", "y", "m", "b", "a", "l", " ", "b", "e", "l", "l">> >>],
     [ident |-> <<"C", "y", "m", "b", "a", "l", "E", "d", "g", "e">>, rename |-> << <<"c", "y", "m", "b", "a", "l", " ", "e", "d", "g", "e">> >>] >>]

\* simple_types.rs:1006-1015  pub enum StickMaterial
StickMaterial ==
  [kind |-> "enum", name |-> "StickMaterial", rename_all |-> "lowercase",
   variants |-> <<
     [ident |-> <<"S", "o", "f", "t">>, rename |-> <<>>],
     [ident |-> <<"M", "e", "d", "i", "u", "m">>, rename |-> <<>>],
     [ident |-> <<"H", "a", "r", "d">>, rename |-> <<>>],
     [ident |-> <<"S", "h", "a", "d", "e", "d">>, rename |-> <<>>],
     [ident |-> <<"X">>, rename |-> <<>>] >>]

\* simple_types.rs:1017-1028  pub enum StickType
StickType ==
  [kind |-> "enum", name |-> "StickType", rename_all |-> "lowercase",
   variants |-> <<
     [ident |-> <<"B", "a", "s", "s", "D", "r", "u", "m">>, rename |-> << <<"b", "a", "s", "s", " ", "d", "r", "u", "m">> >>],
     [ident |-> <<"D", "o", "u", "b", "l", "e", "B", "a", "s", "s", "D", "r", "u", "m">>, rename |-> << <<"d", "o", "u", "b", "l", "e", " ", "b", "a", "s", "s", " ", "d", "r", "u", "m">> >>],
     [ident |-> <<"T", "i", "m", "p", "a", "n", "i">>, rename |-> <<>>],
     [ident |-> <<"X", "y", "l", "o", "p", "h", "o", "n", "e">>, rename |-> <<>>],
     [ident |-> <<"Y", "a", "r", "n">>, rename |-> <<>>] >>]

\* simple_types.rs:1030-1038  pub enum Syllabic
Syllabic ==
  [kind |-> "enum", name |-> "Syllabic", rename_all |-> "lowercase",
   variants |-> <<
     [ident |-> <<"S", "i", "n", "g", "l", "e">>, rename |-> <<>>],
     [ident |-> <<"B", "e", "g", "i", "n">>, rename |-> <<>>],
     [ident |-> <<"E", "n", "d">>, rename |-> <<>>],
     [ident |-> <<"M", "i", "d", "d", "l", "e">>, rename |-> <<>>] >>]

\* simple_types.rs:1040-1047  pub enum SymbolSize
SymbolSize ==
  [kind |-> "enum", name |-> "SymbolSize", rename_all |-> "lowercase",
   variants |-> <<
     [ident |-> <<"F", "u", "l", "l">>, rename |-> <<>>],
     [ident |-> <<"C", "u", "e">>, rename |-> <<>>],
     [ident |-> <<"L", "a", "r", "g", "e">>, rename |-> <<>>] >>]

\* simple_types.rs:1049-1057  pub enum TextDirection
TextDirection ==
  [kind |-> "enum", name |-> "TextDirection", rename_all |-> "lowercase",
   variants |-> <<
     [ident |-> <<"L", "t", "r">>, rename |-> <<>>],
     [ident |-> <<"R", "t", "l">>, rename |-> <<>>],
     [ident |-> <<"L", "r", "o">>, rename |-> <<>>],
     [ident |-> <<"R", "l", "o">>, rename |-> <<>>] >>]

\* simple_types.rs:1059-1069  pub enum TimeRelation
TimeRelation ==
  [kind |-> "enum", name |-> "TimeRelation", rename_all |-> "lowercase",
   variants |-> <<
     [ident |-> <<"P", "a", "r", "e", "n", "t", "h", "e", "s", "e", "s">>, rename |-> <<>>],
     [ident |-> <<"B", "r", "a", "c", "k", "e", "t">>, rename |-> <<>>],
     [ident |-> <<"E", "q", "u", "a", "l", "s">>, rename |-> <<>>],
     [ident |-> <<"S", "l", "a", "s", "h">>, rename |-> <<>>],
     [ident |-> <<"S", "p", "a", "c", "e">>, rename |-> <<>>],
     [ident |-> <<"H", "y", "p", "h", "e", "n">>, rename |-> <<>>] >>]

\* simple_types.rs:1071-1080  pub enum TimeSeparator
TimeSeparator ==
  [kind |-> "enum", name |-> "TimeSeparator", rename_all |-> "lowercase",
   variants |-> <<
     [ident |-> <<"N", "o", "n", "e">>, rename |-> <<>>],
     [ident |-> <<"H", "o", "r", "i", "z", "o", "n", "t", "a", "l">>, rename |-> <<>>],
     [ident |-> <<"D", "i", "a", "g", "o", "n", "a", "l">>, rename |-> <<>>],
     [ident |-> <<"V", "e", "r", "t", "i", "c", "a", "l">>, rename |-> <<>>],
     [ident |-> <<"A", "d", "j", "a", "c", "e", "n", "t">>, rename |-> <<>>] >>]

\* simple_types.rs:1082-1092  pub enum TimeSymbol
TimeSymbol ==
  [kind |-> "enum", name |-> "TimeSymbol", rename_all |-> "kebab-case",
   variants |-> <<
     [ident |-> <<"C", "o", "m", "m", "o", "n">>, rename |-> <<>>],
     [ident |-> <<"C", "u", "t">>, rename |-> <<>>],
     [ident |-> <<"S", "i", "n", "g", "l", "e", "N", "u", "m", "b", "e", "r">>, rename |-> <<>>],
     [ident |-> <<"N", "o", "t", "e">>, rename |-> <<>>],
     [ident |-> <<"D", "o", "t", "t", "e", "d", "N", "o", "t", "e">>, rename |-> <<>>],
     [ident |-> <<"N", "o", "r", "m", "a", "l">>, rename |-> <<>>] >>]

\* simple_types.rs:1094-1106  pub enum TipDirection
TipDirection ==
  [kind |-> "enum", name |-> "TipDirection", rename_all |-> "lowercase",
   variants |-> <<
     [ident |-> <<"U", "p">>, rename |-> <<>>],
     [ident |-> <<"D", "o", "w", "n">>, rename |-> <<>>],
     [ident |-> <<"L", "e", "f", "t">>, rename |-> <<>>],
     [ident |-> <<"R", "i", "g", "h", "t">>, rename |-> <<>>],
     [ident |-> <<"N", "o", "r", "t", "h", "w", "e", "s", "t">>, rename |-> <<>>],
     [ident |-> <<"N", "o", "r", "t", "h", "e", "a", "s", "t">>, rename |-> <<>>],
     [ident |-> <<"S", "o", "u", "t", "h", "e", "a", "s", "t">>, rename |-> <<>>],
     [ident |-> <<"S", "o", "u", "t", "h", "w", "e", "s", "t">>, rename |-> <<>>] >>]

\* simple_types.rs:1108-1114  pub enum TopBottom
TopBottom ==
  [kind |-> "enum", name |-> "TopBottom", rename_all |-> "lowercase",
   variants |-> <<
     [ident |-> <<"T", "o", "p">>, rename |-> <<>>],
     [ident |-> <<"B", "o", "t", "t", "o", "m">>, rename |-> <<>>] >>]

\* simple_types.rs:1116-1123  pub enum TrillStep
TrillStep ==
  [kind |-> "enum", name |-> "TrillStep", rename_all |-> "lowercase",
   variants |-> <<
     [ident |-> <<"W", "h", "o", "l", "e">>, rename |-> <<>>],
     [ident |-> <<"H", "a", "l", "f">>, rename |-> <<>>],
     [ident |-> <<"U", "n", "i", "s", "o", "n">>, rename |-> <<>>] >>]

\* simple_types.rs:1125-1132  pub enum TwoNoteTurn
TwoNoteTurn ==
  [kind |-> "enum", name |-> "TwoNoteTurn", rename_all |-> "lowercase",
   variants |-> <<
     [ident |-> <<"W", "h", "o", "l", "e">>, rename |-> <<>>],
     [ident |-> <<"H", "a", "l", "f">>, rename |-> <<>>],
     [ident |-> <<"N", "o", "n", "e">>, rename |-> <<>>] >>]

\* simple_types.rs:1134-1140  pub enum UpDown
UpDown ==
  [kind |-> "enum", name |-> "UpDown", rename_all |-> "lowercase",
   variants |-> <<
     [ident |-> <<"U", "p">>, rename |-> <<>>],
     [ident |-> <<"D", "o", "w", "n">>, rename |-> <<>>] >>]

\* simple_types.rs:1142-1150  pub enum UpDownStopContinue
UpDownStopContinue ==
  [kind |-> "enum", name |-> "UpDownStopContinue", rename_all |-> "lowercase",
   variants |-> <<
     [ident |-> <<"U", "p">>, rename |-> <<>>],
     [ident |-> <<"D", "o", "w", "n">>, rename |-> <<>>],
     [ident |-> <<"S", "t", "o", "p">>, rename |-> <<>>],
     [ident |-> <<"C", "o", "n", "t", "i", "n", "u", "e">>, rename |-> <<>>] >>]

\* simple_types.rs:1152-1158  pub enum UprightInverted
UprightInverted ==
  [kind |-> "enum", name |-> "UprightInverted", rename_all |-> "lowercase",
   variants |-> <<
     [ident |-> <<"U", "p", "r", "i", "g", "h", "t">>, rename |-> <<>>],
     [ident |-> <<"I", "n", "v", "e", "r", "t", "e", "d">>, rename |-> <<>>] >>]

\* simple_types.rs:1160-1168  pub enum Valign
Valign ==
  [kind |-> "enum", name |-> "Valign", rename_all |-> "lowercase",
   variants |-> <<
     [ident |-> <<"T", "o", "p">>, rename |-> <<>>],
     [ident |-> <<"M", "i", "d", "d", "l", "e">>, rename |-> <<>>],
     [ident |-> <<"B", "o", "t", "t", "o", "m">>, rename |-> <<>>],
     [ident |-> <<"B", "a", "s", "e", "l", "i", "n", "e">>, rename |-> <<>>] >>]

\* simple_types.rs:1170-1177  pub enum ValignImage
ValignImage ==
  [kind |-> "enum", name |-> "ValignImage", rename_all |-> "lowercase",
   variants |-> <<
     [ident |-> <<"T", "o", "p">>, rename |-> <<>>],
     [ident |-> <<"M", "i", "d", "d", "l", "e">>, rename |-> <<>>],
     [ident |-> <<"B", "o", "t", "t", "o", "m">>, rename |-> <<>>] >>]

\* simple_types.rs:1179-1187  pub enum WedgeType
WedgeType ==
  [kind |-> "enum", name |-> "WedgeType", rename_all |-> "lowercase",
   variants |-> <<
     [ident |-> <<"C", "r", "e", "s", "c", "e", "n", "d", "o">>, rename |-> <<>>],
     [ident |-> <<"D", "i", "m", "i", "n", "u", "e", "n", "d", "o">>, rename |-> <<>>],
     [ident |-> <<"S", "t", "o", "p">>, rename |-> <<>>],
     [ident |-> <<"C", "o", "n", "t", "i", "n", "u", "e">>, rename |-> <<>>] >>]

\* simple_types.rs:1189-1198  pub enum Winged
Winged ==
  [kind |-> "enum", name |-> "Winged", rename_all |-> "kebab-case",
   variants |-> <<
     [ident |-> <<"N", "o", "n", "e">>, rename |-> <<>>],
     [ident |-> <<"S", "t", "r", "a", "i", "g", "h", "t">>, rename |-> <<>>],
     [ident |-> <<"C", "u", "r", "v", "e", "d">>, rename |-> <<>>],
     [ident |-> <<"D", "o", "u", "b", "l", "e", "S", "t", "r", "a", "i", "g", "h", "t">>, rename |-> <<>>],
     [ident |-> <<"D", "o", "u", "b", "l", "e", "C", "u", "r", "v", "e", "d">>, rename |-> <<>>] >>]

\* simple_types.rs:1200-1224  pub enum Wood
Wood ==
  [kind |-> "enum", name |-> "Wood", rename_all |-> "lowercase",
   variants |-> <<
     [ident |-> <<"B", "o", "a", "r", "d", "C", "l", "a", "p", "p", "e", "r">>, rename |-> << <<"b", "o", "a", "r", "d", " ", "c", "l", "a", "p", "p", "e", "r">> >>],
     [ident |-> <<"C", "a", "b", "a", "s", "a">>, rename |-> <<>>],
     [ident |-> <<"C", "a", "s", "t", "a", "n", "e", "t", "s">>, rename |-> <<>>],
     [ident |-> <<"C", "l", "a", "v", "e", "s">>, rename |-> <<>>],
     [ident |-> <<"G", "u", "i", "r", "o">>, rename |-> <<>>],
     [ident |-> <<"L", "o", "g", "D", "r", "u", "m">>, rename |-> << <<"l", "o", "g", " ", "d", "r", "u", "m">> >>],
     [ident |-> <<"M", "a", "r", "a", "c", "a">>, rename |-> <<>>],
     [ident |-> <<"M", "a", "r", "a", "c", "a", "s">>, rename |-> <<>>],
     [ident |-> <<"R", "a", "t", "c", "h", "e", "t">>, rename |-> <<>>],
     [ident |-> <<"S", "a", "n", "d", "p", "a", "p", "e", "r", "B", "l", "o", "c", "k", "s">>, rename |-> << <<"s", "a", "n", "d", "p", "a", "p", "e", "r", " ", "b", "l", "o", "c", "k", "s">> >>],
     [ident |-> <<"S", "l", "i", "t", "D", "r", "u", "m">>, rename |-> << <<"s", "l", "i", "t", " ", "d", "r", "u", "m">> >>],
     [ident |-> <<"T", "e", "m", "p", "l", "e", "B", "l", "o", "c", "k">>, rename |-> << <<"t", "e", "m", "p", "l", "e", " ", "b", "l", "o", "c", "k">> >>],
     [ident |-> <<"V", "i", "b", "r", "a", "s", "l", "a", "p">>, rename |-> <<>>],
     [ident |-> <<"W", "o", "o", "d", "B", "l", "o", "c", "k">>, rename |-> << <<"w", "o", "o", "d", " ", "b", "l", "o", "c", "k">> >>] >>]

\* simple_types.rs:1226-1232  pub enum YesNo
YesNo ==
  [kind |-> "enum", name |-> "YesNo", rename_all |-> "lowercase",
   variants |-> <<
     [ident |-> <<"Y", "e", "s">>, rename |-> <<>>],
     [ident |-> <<"N", "o">>, rename |-> <<>>] >>]

\* Every closed enumeration of simple_types.rs, in source order.
Enums ==
  <<
     AboveBelow, AccidentalValue, ArrowDirection, ArrowStyle, BackwardForward, BarStyle,
     BeaterValue, BreathMarkValue, CancelLocation, CircularArrow, ClefSign, CssFontSize,
     DegreeSymbolValue, DegreeTypeValue, Effect, EnclosureShape, Fan, FermataShape,
     FontStyle, FontWeight, Glass, GroupBarlineValue, GroupSymbolValue, HandbellValue,
     HarmonyType, HoleClosedLocation, HoleClosedValue, KindValue, LeftCenterRight, LeftRight,
     LineEnd, LineShape, LineType, MarginType, MeasureNumbering, Membrane,
     Metal, Mute, NoteHeadValue, NoteSizeType, NoteTypeValue, OnOff,
     OverUnder, Pitched, PrincipalVoceSymbol, RightLeftMiddle, SemiPitched, ShowFrets,
     ShowTuplet, StaffType, StartNote, StartStop, StartStopChangeContinue, StartStopContinue,
     StartStopDiscontinue, StartStopSingle, StemValue, Step, StickLocation, StickMaterial,
     StickType, Syllabic, SymbolSize, TextDirection, TimeRelation, TimeSeparator,
     TimeSymbol, TipDirection, TopBottom, TrillStep, TwoNoteTurn, UpDown,
     UpDownStopContinue, UprightInverted, Valign, ValignImage, WedgeType, Winged,
     Wood, YesNo >>
EnumNames == {Enums[i].name : i \in 1..Len(Enums)}
EnumByName(n) == Enums[CHOOSE i \in 1..Len(Enums) : Enums[i].name = n]

\* Label comparison with ASCII case folded on both sides.
EqIgnoreCase(a, b) ==
  /\ Len(a) = Len(b)
  /\ \A i \in 1..Len(a) : to_ascii_lowercase(a[i]) = to_ascii_lowercase(b[i])

\* A decoder that folds case when it compares labels.
visit_str_CaseFolding(e, label) ==
  LET hits == {v \in 1..Len(e.variants) : EqIgnoreCase(WireLabel(e, v), label)}
  IN  IF hits = {}
        THEN Err("unknown variant")
        ELSE Ok([t |-> "enum", of |-> e.name,
                 variant |-> CHOOSE v \in hits : \A w \in hits : v <= w])

\* The derived variant identifier visitor: the label is matched against the
\* variants' wire labels by string equality, in declaration order.
visit_str(e, label) ==
  LET hits == {v \in 1..Len(e.variants) : WireLabel(e, v) = label}
  IN  IF hits = {}
        THEN Err("unknown variant")
        ELSE Ok([t |-> "enum", of |-> e.name,
                 variant |-> CHOOSE v \in hits : \A w \in hits : v <= w])

\* Deserialize for a unit-variant enum: a string names the variant; a token
\* of another kind is no enum at all.
deserialize_enum(e, token) ==
  IF token.kind = "str" THEN visit_str(e, token.s) ELSE Err("invalid type")

---------------------------------------------------------------------------
(* Primitive types behind the type aliases, with serde's Deserialize for    *)
(* them: an integer type takes an integer token within the type's range, a *)
(* float takes any number, a String takes a string.                        *)

u8 == [kind |-> "int", min |-> 0, max |-> 255]
u16 == [kind |-> "int", min |-> 0, max |-> 65535]
i16 == [kind |-> "int", min |-> -32768, max |-> 32767]
\* The 64-bit ranges are clipped to the integers TLC supports; every token
\* of the model lies far inside them.
u64 == [kind |-> "int", min |-> 0, max |-> 2147483647]
i64 == [kind |-> "int", min |-> -2147483647, max |-> 2147483647]
i32 == [kind |-> "int", min |-> (0 - 2147483647) - 1, max |-> 2147483647]
f64 == [kind |-> "float"]
String == [kind |-> "string"]

IsInteger(token) == token.kind \in {"u64", "i64"}
IsNumber(token) == token.kind \in {"u64", "i64", "f64"}

\* The value of a numeric token in units of 1 / FracUnits (v as f64).
as_f64(token) == IF token.kind = "f64" THEN token.x ELSE token.n * FracUnits

deserialize_int(ty, token) ==
  IF IsInteger(token)
    THEN IF ty.min <= token.n /\ token.n <= ty.max
           THEN Ok([t |-> "int", n |-> token.n])
           ELSE Err("invalid value")
    ELSE Err("invalid type")

deserialize_float(token) ==
  IF IsNumber(token) THEN Ok([t |-> "float", x |-> as_f64(token)]) ELSE Err("invalid type")

deserialize_string(token) ==
  IF token.kind = "str" THEN Ok([t |-> "string", s |-> token.s]) ELSE Err("invalid type")

---------------------------------------------------------------------------
(* Type aliases of simple_types.rs. *)

AccordionMiddle == u8
BeamLevel == u8
Color == String
CommaSeparatedText == String
Divisions == f64
EndingNumber == String
FontSize == f64
Midi16 == u8
Midi128 == u8
Midi16384 == u16
NonNegativeDecimal == f64
NumberLevel == u8
Octave == u8
Percent == u8
PositiveDecimal == f64
PositiveDivisions == Divisions
RotationDegrees == i16
Tenths == f64
TimeOnly == String
TremoloMarks == u8
TrillBeats == f64
YYYYMMDD == String

---------------------------------------------------------------------------
(* Untagged unions: #[serde(untagged)] enums with one payload per variant. *)

NumberOrNormal ==
  [kind |-> "untagged", name |-> "NumberOrNormal",
   variants |-> << [ident |-> "Number", ty |-> f64],
                   [ident |-> "Normal", ty |-> String] >>]

PositiveIntegerOrEmpty ==
  [kind |-> "untagged", name |-> "PositiveIntegerOrEmpty",
   variants |-> << [ident |-> "Integer", ty |-> u64],
                   [ident |-> "Empty", ty |-> String] >>]

YesNoNumber ==
  [kind |-> "untagged", name |-> "YesNoNumber",
   variants |-> << [ident |-> "Boolean", ty |-> YesNo],
                   [ident |-> "Decimal", ty |-> f64] >>]

Option(ty) == [kind |-> "option", inner |-> ty]

---------------------------------------------------------------------------
(* Records.  A field is looked up under its wire name  *)
(* (#[serde(rename = "...")], else the identifier); default says whether   *)
(* the field carries #[serde(default)].                                    *)

Field(name, ty) == [name |-> name, ty |-> ty, default |-> FALSE]

Accidental ==
  [kind |-> "struct", name |-> "Accidental",
   fields |-> <<
     Field("cautionary", Option(YesNo)),
     Field("editorial", Option(YesNo)),
     Field("bracket", Option(YesNo)),
     Field("size", Option(SymbolSize)),
     Field("default-x", Option(Tenths)),
     Field("default-y", Option(Tenths)),
     Field("font-family", Option(CommaSeparatedText)),
     Field("font-style", Option(FontStyle)),
     Field("font-size", Option(FontSize)),
     Field("font-weight", Option(FontWeight)),
     Field("color", Option(Color)) >>]

AccidentalMark ==
  [kind |-> "struct", name |-> "AccidentalMark",
   fields |-> <<
     Field("default-x", Option(Tenths)),
     Field("default-y", Option(Tenths)),
     Field("relative-x", Option(Tenths)),
     Field("relative-y", Option(Tenths)),
     Field("font-family", Option(CommaSeparatedText)),
     Field("font-style", Option(FontStyle)),
     Field("font-size", Option(FontSize)),
     Field("font-weight", Option(FontWeight)),
     Field("color", Option(Color)),
     Field("placement", Option(AboveBelow)) >>]

\* A field that carries #[serde(default)].
FieldWithDefault(name, ty) == [name |-> name, ty |-> ty, default |-> TRUE]

(* Records of main.rs. *)

Key ==
  [kind |-> "struct", name |-> "Key",
   fields |-> << Field("fifths", i32), Field("mode", String) >>]

Time ==
  [kind |-> "struct", name |-> "Time",
   fields |-> << Field("beats", i32), FieldWithDefault("beat-type", i32) >>]

Attributes ==
  [kind |-> "struct", name |-> "Attributes",
   fields |-> << Field("divisions", i32), Field("key", Key), Field("time", Time) >>]

FieldNames(st) == {st.fields[i].name : i \in 1..Len(st.fields)}
FieldByName(st, k) == st.fields[CHOOSE i \in 1..Len(st.fields) : st.fields[i].name = k]

---------------------------------------------------------------------------
(* The derived Deserialize implementations. *)

RECURSIVE Deserialize(_, _)
RECURSIVE try_variants(_, _, _)
RECURSIVE visit_map(_, _, _, _)
RECURSIVE missing_fields(_, _, _)

\* An untagged enum tries its variants from the i-th on, in declaration
\* order, and returns the first that deserializes.
try_variants(u, token, i) ==
  IF i > Len(u.variants)
    THEN Err("data did not match any variant")
    ELSE LET r == Deserialize(u.variants[i].ty, token)
         IN  IF r.ok
               THEN Ok([t |-> "union", of |-> u.name,
                        variant |-> u.variants[i].ident, val |-> r.val])
               ELSE try_variants(u, token, i + 1)

\* A resolver that never tries the first declared candidate.
deserialize_untagged_SkipFirst(u, token) == try_variants(u, token, 2)

deserialize_untagged(u, token) == try_variants(u, token, 1)

\* Option<T>: null is None, anything else must be a T.
deserialize_option(ty, token) ==
  IF token.kind = "unit"
    THEN Ok([t |-> "none"])
    ELSE LET r == Deserialize(ty.inner, token)
         IN  IF r.ok THEN Ok([t |-> "some", val |-> r.val]) ELSE r

RECURSIVE missing_fields_DefaultIgnored(_, _, _)
\* The struct visitor with #[serde(default)] lost: an absent field that is no
\* Option is an error.
missing_fields_DefaultIgnored(st, i, got) ==
  IF i > Len(st.fields)
    THEN Ok([t |-> "struct", of |-> st.name, fields |-> got])
    ELSE LET f == st.fields[i]
         IN  IF f.name \in DOMAIN got
               THEN missing_fields_DefaultIgnored(st, i + 1, got)
               ELSE IF f.ty.kind = "option"
                 THEN missing_fields_DefaultIgnored(st, i + 1, got @@ (f.name :> [t |-> "none"]))
                 ELSE Err("missing field")

\* After the last entry: a field never seen is None when it is an Option,
\* its Default when it carries #[serde(default)] (0 for the i32 beat_type),
\* and an error otherwise.
missing_fields(st, i, got) ==
  IF i > Len(st.fields)
    THEN Ok([t |-> "struct", of |-> st.name, fields |-> got])
    ELSE LET f == st.fields[i]
         IN  IF f.name \in DOMAIN got
               THEN missing_fields(st, i + 1, got)
               ELSE IF f.ty.kind = "option"
                 THEN missing_fields(st, i + 1, got @@ (f.name :> [t |-> "none"]))
                 ELSE IF f.default
                   THEN missing_fields(st, i + 1, got @@ (f.name :> [t |-> "int", n |-> 0]))
                   ELSE Err("missing field")

\* The derived struct visitor: the entries are taken in wire order; an
\* unknown key is skipped, a repeated key and a value that fails to
\* deserialize end the whole record with that error.
visit_map(st, entries, i, got) ==
  IF i > Len(entries)
    THEN missing_fields(st, 1, got)
    ELSE LET k == entries[i].key
         IN  IF k \notin FieldNames(st)
               THEN visit_map(st, entries, i + 1, got)
               ELSE IF k \in DOMAIN got
                 THEN Err("duplicate field")
                 ELSE LET r == Deserialize(FieldByName(st, k).ty, entries[i].value)
                      IN  IF r.ok
                            THEN visit_map(st, entries, i + 1, got @@ (k :> r.val))
                            ELSE r

deserialize_struct(st, token) ==
  IF token.kind = "map"
    THEN visit_map(st, token.entries, 1, [x \in {} |-> x])
    ELSE Err("invalid type")

Deserialize(ty, token) ==
  CASE ty.kind = "enum" -> deserialize_enum(ty, token)
    [] ty.kind = "int" -> deserialize_int(ty, token)
    [] ty.kind = "float" -> deserialize_float(token)
    [] ty.kind = "string" -> deserialize_string(token)
    [] ty.kind = "untagged" -> deserialize_untagged(ty, token)
    [] ty.kind = "option" -> deserialize_option(ty, token)
    [] ty.kind = "struct" -> deserialize_struct(ty, token)

---------------------------------------------------------------------------
(* The types a caller can ask for, by name. *)

Scalars ==
  [AccordionMiddle |-> AccordionMiddle, BeamLevel |-> BeamLevel, Color |-> Color,
   CommaSeparatedText |-> CommaSeparatedText, Divisions |-> Divisions,
   EndingNumber |-> EndingNumber, FontSize |-> FontSize, Midi16 |-> Midi16,
   Midi128 |-> Midi128, Midi16384 |-> Midi16384,
   NonNegativeDecimal |-> NonNegativeDecimal, NumberLevel |-> NumberLevel,
   Octave |-> Octave, Percent |-> Percent, PositiveDecimal |-> PositiveDecimal,
   PositiveDivisions |-> PositiveDivisions, RotationDegrees |-> RotationDegrees,
   Tenths |-> Tenths, TimeOnly |-> TimeOnly, TremoloMarks |-> TremoloMarks,
   TrillBeats |-> TrillBeats, YYYYMMDD |-> YYYYMMDD]
ScalarNames == DOMAIN Scalars

Unions ==
  [NumberOrNormal |-> NumberOrNormal,
   PositiveIntegerOrEmpty |-> PositiveIntegerOrEmpty,
   YesNoNumber |-> YesNoNumber]
UnionNames == DOMAIN Unions

Structs ==
  [Accidental |-> Accidental, AccidentalMark |-> AccidentalMark,
   Key |-> Key, Time |-> Time, Attributes |-> Attributes]
StructNames == DOMAIN Structs

---------------------------------------------------------------------------
(* The requests of the model: the inputs the decoders are applied to.      *)

PadChars == {"x", "Z", " ", ","}
Pads == UNION {[1..n -> PadChars] : n \in 0..MaxPad}
Padded(bases) == {p \o b : p \in Pads, b \in bases} \cup {b \o p : p \in Pads, b \in bases}

PatternBases ==
  {<<"#", "8", "0", "0", "0", "8", "0">>, <<"#", "4", "0", "8", "0", "0", "0", "8", "0">>, <<"#", "8", "0", "0", "0", "8", "0", "Z", "Z">>, <<"p", "u", "r", "p", "l", "e">>, <<"#", "8", "0", "0", "8", "0">>, <<>>,
   <<"1">>, <<"1", ",", "2">>, <<"1", ",", " ", "2">>, <<"3", ",", "1">>, <<"1", ",", ",", "2">>, <<"0">>, <<"0", "1">>, <<"1", "2">>,
   <<"a", "b", "c">>, <<"a", "b", "c", "1">>, <<"h", "e", "l", "l", "o">>, <<"2", "0", "2", "0", "-", "0", "1", "-", "0", "1">>, <<"2", "0", "2", "0", "-", "0", "1", "-", "0", "1", "Z">>,
   <<"2", "0", "2", "0", "-", "0", "1", "-", "0", "1", "+", "0", "2", ":", "0", "0">>, <<" ", " ">>, <<"a", ",", "b">>, <<"A", "r", "i", "a", "l", ",", " ", "H", "e", "l", "v", "e", "t", "i", "c", "a">>}
PatternTokens == {Str(s) : s \in Padded(PatternBases)}

\* Labels that belong to no set or differ from a registered label in case only.
StrayLabels ==
  {<<>>, <<"a", "b", "c">>, <<"t", "a", "b">>, <<"T", "a", "b">>, <<"a">>, <<"g">>, <<"Y", "E", "S">>}

Lowered(s) == [i \in 1..Len(s) |-> to_ascii_lowercase(s[i])]
Shortened(s) == IF s = <<>> THEN s ELSE SubSeq(s, 1, Len(s) - 1)

\* The CSS font sizes.
CssFontSizes ==
  {<<"x", "x", "-", "s", "m", "a", "l", "l">>,
   <<"x", "-", "s", "m", "a", "l", "l">>,
   <<"s", "m", "a", "l", "l">>,
   <<"m", "e", "d", "i", "u", "m">>,
   <<"l", "a", "r", "g", "e">>,
   <<"x", "-", "l", "a", "r", "g", "e">>,
   <<"x", "x", "-", "l", "a", "r", "g", "e">>}

\* The kind values listed in the documentation of KindValue.
DocumentedKindValues ==
  {<<"m", "a", "j", "o", "r">>,
   <<"m", "i", "n", "o", "r">>,
   <<"a", "u", "g", "m", "e", "n", "t", "e", "d">>,
   <<"d", "i", "m", "i", "n", "i", "s", "h", "e", "d">>,
   <<"d", "o", "m", "i", "n", "a", "n", "t">>,
   <<"m", "a", "j", "o", "r", "-", "s", "e", "v", "e", "n", "t", "h">>,
   <<"m", "i", "n", "o", "r", "-", "s", "e", "v", "e", "n", "t", "h">>,
   <<"d", "i", "m", "i", "n", "i", "s", "h", "e", "d", "-", "s", "e", "v", "e", "n", "t", "h">>,
   <<"a", "u", "g", "m", "e", "n", "t", "e", "d", "-", "s", "e", "v", "e", "n", "t", "h">>,
   <<"h", "a", "l", "f", "-", "d", "i", "m", "i", "n", "i", "s", "h", "e", "d">>,
   <<"m", "a", "j", "o", "r", "-", "m", "i", "n", "o", "r">>,
   <<"m", "a", "j", "o", "r", "-", "s", "i", "x", "t", "h">>,
   <<"m", "i", "n", "o", "r", "-", "s", "i", "x", "t", "h">>,
   <<"d", "o", "m", "i", "n", "a", "n", "t", "-", "n", "i", "n", "t", "h">>,
   <<"m", "a", "j", "o", "r", "-", "n", "i", "n", "t", "h">>,
   <<"m", "i", "n", "o", "r", "-", "n", "i", "n", "t", "h">>,
   <<"d", "o", "m", "i", "n", "a", "n", "t", "-", "1", "1", "t", "h">>,
   <<"m", "a", "j", "o", "r", "-", "1", "1", "t", "h">>,
   <<"m", "i", "n", "o", "r", "-", "1", "1", "t", "h">>,
   <<"d", "o", "m", "i", "n", "a", "n", "t", "-", "1", "3", "t", "h">>,
   <<"m", "a", "j", "o", "r", "-", "1", "3", "t", "h">>,
   <<"m", "i", "n", "o", "r", "-", "1", "3", "t", "h">>,
   <<"s", "u", "s", "p", "e", "n", "d", "e", "d", "-", "s", "e", "c", "o", "n", "d">>,
   <<"s", "u", "s", "p", "e", "n", "d", "e", "d", "-", "f", "o", "u", "r", "t", "h">>,
   <<"N", "e", "a", "p", "o", "l", "i", "t", "a", "n">>,
   <<"I", "t", "a", "l", "i", "a", "n">>,
   <<"F", "r", "e", "n", "c", "h">>,
   <<"G", "e", "r", "m", "a", "n">>,
   <<"p", "e", "d", "a", "l">>,
   <<"p", "o", "w", "e", "r">>,
   <<"T", "r", "i", "s", "t", "a", "n">>,
   <<"o", "t", "h", "e", "r">>,
   <<"n", "o", "n", "e">>}

\* For an enum: its labels, its variant identifiers, both in lower case, its
\* labels cut short by a character or padded, and the stray labels; and two
\* tokens that are no strings.
EnumTokens(e) ==
  LET labels == Labels(e)
      idents == {e.variants[v].ident : v \in 1..Len(e.variants)}
  IN  {Str(s) : s \in labels \cup idents \cup StrayLabels
                      \cup {Lowered(s) : s \in labels \cup idents}
                      \cup {Shortened(s) : s \in labels}
                      \cup Padded(labels)
                      \cup (IF e.name = "KindValue" THEN DocumentedKindValues ELSE {})
                      \cup (IF e.name = "CssFontSize" THEN CssFontSizes ELSE {})}
      \cup {U64(0), Unit}

\* Numbers around the values the types' ranges and the examples turn on.
Interest ==
  {-32768, -180, -5, 0, 2, 5, 9, 16, 42, 100, 128, 180, 255, 16384, 32767, 65535}
IntValues == UNION {(b - MaxDelta)..(b + MaxDelta) : b \in Interest}
IntegerTokens == {U64(n) : n \in {m \in IntValues : m >= 0}} \cup {I64(n) : n \in IntValues}
DecimalTokens ==
  {F64(b * FracUnits + d) : b \in Interest, d \in (0 - MaxDelta)..MaxDelta}
TextTokens ==
  {Str(s) : s \in {<<>>, <<"n", "o", "r", "m", "a", "l">>, <<"N", "o", "r", "m", "a", "l">>, <<"a", "b", "c">>, <<"4", "2">>, <<"5">>, <<"0">>,
                   <<"-", "5">>, <<"y", "e", "s">>, <<"n", "o">>, <<"1", "0", "1">>, <<" ">>,
                   <<"s", "m", "a", "l", "l">>}}
ScalarTokens == IntegerTokens \cup DecimalTokens \cup TextTokens \cup {Unit}

\* Values a record field arrives with: one its type takes and one it should
\* refuse.
FieldSamples(k) ==
  CASE k \in {"cautionary", "editorial", "bracket"} -> {Str(<<"y", "e", "s">>), Str(<<"m", "a", "y", "b", "e">>)}
    [] k = "size" -> {Str(<<"c", "u", "e">>), Str(<<"h", "u", "g", "e">>)}
    [] k \in {"default-x", "default-y", "relative-x", "relative-y"} ->
         {F64(5), Str(<<"a", "b", "c">>)}
    [] k = "font-family" -> {Str(<<"A", "r", "i", "a", "l">>), Str(<<",">>)}
    [] k = "font-style" -> {Str(<<"i", "t", "a", "l", "i", "c">>), Str(<<"o", "b", "l", "i", "q", "u", "e">>)}
    [] k = "font-size" -> {U64(12), Str(<<"s", "m", "a", "l", "l">>)}
    [] k = "font-weight" -> {Str(<<"b", "o", "l", "d">>), Str(<<"h", "e", "a", "v", "y">>)}
    [] k = "color" -> {Str(<<"#", "8", "0", "0", "0", "8", "0">>), Str(<<"p", "u", "r", "p", "l", "e">>), Unit}
    [] k = "placement" -> {Str(<<"a", "b", "o", "v", "e">>), Str(<<"A", "b", "o", "v", "e">>)}
    [] k \in {"fifths", "beats", "beat-type", "divisions"} -> {U64(4), Str(<<"a", "b", "c">>)}
    [] k = "mode" -> {Str(<<"m", "a", "j", "o", "r">>), U64(1)}
    [] k = "key" ->
         {Map(<<Entry("fifths", I64(-2)), Entry("mode", Str(<<"m", "i", "n", "o", "r">>))>>),
          Map(<<Entry("fifths", I64(-2))>>)}
    [] k = "time" ->
         {Map(<<Entry("beats", U64(3)), Entry("beat-type", U64(8))>>),
          Map(<<Entry("beats", U64(3))>>),
          Map(<<>>)}

Entries(st) ==
  UNION {{[key |-> k, value |-> v] : v \in FieldSamples(k)} : k \in FieldNames(st)}
RecordTokens(st) ==
  {[kind |-> "map", entries |-> es] :
     es \in UNION {[1..n -> Entries(st)] : n \in 0..MaxPresent}}

RECURSIVE PresenceEntries(_, _)
\* Each field from the i-th on absent or present with one of its samples, in
\* declaration order.
PresenceEntries(st, i) ==
  IF i > Len(st.fields)
    THEN {<<>>}
    ELSE LET rest == PresenceEntries(st, i + 1)
         IN  rest \cup {<<Entry(st.fields[i].name, v)>> \o r :
                           v \in FieldSamples(st.fields[i].name), r \in rest}
PresenceTokens(st) == {Map(es) : es \in PresenceEntries(st, 1)}

\* The records of complex_types.rs arrive with at most MaxPresent of their many
\* fields, in any order; those of main.rs with any subset of their fields.
StructTokens(n) ==
  IF n \in {"Accidental", "AccidentalMark"}
    THEN RecordTokens(Structs[n])
    ELSE PresenceTokens(Structs[n])

---------------------------------------------------------------------------
(* The state machine. *)

Init ==
  /\ pc = "ready"
  /\ result = NoResult
  /\ statics = [v \in Validators |-> Uninitialised]
  /\ threads = <<>>
  /\ \/ target \in Validators /\ raw \in PatternTokens
     \/ \E i \in 1..Len(Enums) : target = Enums[i].name /\ raw \in EnumTokens(Enums[i])
     \/ target \in ScalarNames \cup UnionNames /\ raw \in ScalarTokens
     \/ \E n \in StructNames : target = n /\ raw \in StructTokens(n)

Return(r) ==
  /\ result' = r
  /\ pc' = "done"
  /\ UNCHANGED <<target, raw, statics, threads>>

ValidateColor ==
  pc = "ready" /\ target = "validate_color" /\ Return(validate_color(raw.s))

ValidateCommaSeparatedText ==
  /\ pc = "ready" /\ target = "validate_comma_separated_text"
  /\ Return(validate_comma_separated_text(raw.s))

ValidateEndingNumber ==
  pc = "ready" /\ target = "validate_ending_number" /\ Return(validate_ending_number(raw.s))

ValidateTimeOnly ==
  pc = "ready" /\ target = "validate_time_only" /\ Return(validate_time_only(raw.s))

ValidateYyyyMmDd ==
  pc = "ready" /\ target = "validate_yyyy_mm_dd" /\ Return(validate_yyyy_mm_dd(raw.s))

DecodeEnum ==
  pc = "ready" /\ target \in EnumNames /\ Return(Deserialize(EnumByName(target), raw))

DecodeScalar ==
  pc = "ready" /\ target \in ScalarNames /\ Return(Deserialize(Scalars[target], raw))

DecodeUnion ==
  pc = "ready" /\ target \in UnionNames /\ Return(Deserialize(Unions[target], raw))

DecodeRecord ==
  pc = "ready" /\ target \in StructNames /\ Return(Deserialize(Structs[target], raw))

Next ==
  \/ ValidateColor
  \/ ValidateCommaSeparatedText
  \/ ValidateEndingNumber
  \/ ValidateTimeOnly
  \/ ValidateYyyyMmDd
  \/ DecodeEnum
  \/ DecodeScalar
  \/ DecodeUnion
  \/ DecodeRecord

Spec == Init /\ [][Next]_vars

---------------------------------------------------------------------------
(* Concurrent validation.  Several threads call validators on the same     *)
(* text; each call dereferences the validator's lazy_static regex, which   *)
(* runs the regex constructor under a Once on first use, and then searches *)
(* the text with the regex found in the cell.                              *)

ConcurrentBases ==
  {<<"#", "8", "0", "0", "0", "8", "0">>, <<"p", "u", "r", "p", "l", "e">>, <<>>,
   <<"1", ",", "2">>, <<"0">>, <<",">>}

\* A claim that is not recorded, so that a second thread can claim as well.
compare_exchange_Unrecorded(state) == state

\* The Once's claim of the initialisation: one atomic compare-and-exchange
\* from "uninit" to "running"; it leaves every other state alone.
compare_exchange(state) == IF state = "uninit" THEN "running" ELSE state

Thread(v) == [fn |-> v, at |-> "deref", path |-> "none", out |-> NoResult]
Move(t, at, path) == threads' = [threads EXCEPT ![t].at = at, ![t].path = path]

ConcurrentInit ==
  /\ pc = "ready"
  /\ result = NoResult
  /\ target = "threads"
  /\ raw \in {Str(s) : s \in ConcurrentBases}
  /\ statics = [v \in Validators |-> Uninitialised]
  /\ threads \in [1..MaxThreads -> {Thread(v) : v \in Validators}]

\* The regex is built already: the dereference returns it at once.
CallOnceReady(t) ==
  /\ threads[t].at = "deref"
  /\ statics[threads[t].fn].state = "ready"
  /\ Move(t, "match", "ready")
  /\ UNCHANGED <<pc, target, raw, result, statics>>

\* First use: the thread claims the initialisation.
CallOnceClaim(t) ==
  /\ threads[t].at = "deref"
  /\ statics[threads[t].fn].state = "uninit"
  /\ statics' = [statics EXCEPT ![threads[t].fn].state = compare_exchange(@)]
  /\ Move(t, "build", "built")
  /\ UNCHANGED <<pc, target, raw, result>>

\* Another thread is building the regex: the thread is parked.
CallOncePark(t) ==
  /\ threads[t].at = "deref"
  /\ statics[threads[t].fn].state = "running"
  /\ Move(t, "parked", "parked")
  /\ UNCHANGED <<pc, target, raw, result, statics>>

\* Regex::new(..).unwrap() fills the cell and completes the Once.
Build(t) ==
  /\ threads[t].at = "build"
  /\ statics' = [statics EXCEPT ![threads[t].fn] =
                   [state |-> "ready", cell |-> Built(PatternOf(threads[t].fn)),
                    builds |-> @.builds + 1]]
  /\ Move(t, "match", threads[t].path)
  /\ UNCHANGED <<pc, target, raw, result>>

Unpark(t) ==
  /\ threads[t].at = "parked"
  /\ statics[threads[t].fn].state = "ready"
  /\ Move(t, "match", threads[t].path)
  /\ UNCHANGED <<pc, target, raw, result, statics>>

\* The search, with whatever the cell holds, and the validator's return.
IsMatch(t) ==
  /\ threads[t].at = "match"
  /\ LET cell == statics[threads[t].fn].cell
         out == IF cell.set /\ is_match(cell.re, raw.s)
                  THEN Ok("()")
                  ELSE Err(InvalidMessage(threads[t].fn))
     IN  threads' = [threads EXCEPT ![t].at = "returned", ![t].out = out]
  /\ UNCHANGED <<pc, target, raw, result, statics>>

ConcurrentNext ==
  \E t \in 1..MaxThreads :
    \/ CallOnceReady(t)
    \/ CallOnceClaim(t)
    \/ CallOncePark(t)
    \/ Build(t)
    \/ Unpark(t)
    \/ IsMatch(t)

ConcurrentSpec == ConcurrentInit /\ [][ConcurrentNext]_vars

---------------------------------------------------------------------------
(* Properties. *)

Done(t) == pc = "done" /\ target = t
NoVariant == Err("data did not match any variant")
UnionResult(u, ident, v) == Ok([t |-> "union", of |-> u, variant |-> ident, val |-> v])

\* -?[0-9]+(\.[0-9]+)? : a decimal numeral written as text
NumeralText ==
  Concat(<<Optional(Lit("-")), Plus(AnyDigit),
           Optional(Concat(<<Lit("."), Plus(AnyDigit)>>))>>)
\* [1-9][0-9]* : a positive integer written as text
PositiveIntegerText == Concat(<<NonZeroDigit, Star(AnyDigit)>>)

\* C1: for NumberOrNormal, every token that is a decimal numeral resolves to
\* the Number branch holding that number, the token "normal" resolves to the
\* Normal branch, and every other token is left unresolved.
C1_NumberOrNormalBranches ==
  Done("NumberOrNormal") =>
    LET numeral == IsNumber(raw) \/ (raw.kind = "str" /\ FullMatch(NumeralText, raw.s))
        keyword == raw.kind = "str" /\ raw.s = <<"n", "o", "r", "m", "a", "l">>
    IN  /\ numeral => result.ok /\ result.val.variant = "Number"
        /\ IsNumber(raw) =>
             result = UnionResult("NumberOrNormal", "Number", [t |-> "float", x |-> as_f64(raw)])
        /\ keyword => result.ok /\ result.val.variant = "Normal"
        /\ ~numeral /\ ~keyword => result = NoVariant

\* C2: for PositiveIntegerOrEmpty, a token resolves to the Integer branch
\* exactly when it is a positive integer, to the Empty branch exactly when it
\* is the empty string, and is left unresolved in every other case.
C2_PositiveIntegerOrEmptyBranches ==
  Done("PositiveIntegerOrEmpty") =>
    LET positive == \/ IsInteger(raw) /\ raw.n > 0
                    \/ raw.kind = "str" /\ FullMatch(PositiveIntegerText, raw.s)
        empty == raw.kind = "str" /\ raw.s = <<>>
    IN  /\ positive <=> (result.ok /\ result.val.variant = "Integer")
        /\ empty <=> (result.ok /\ result.val.variant = "Empty")
        /\ ~positive /\ ~empty => result = NoVariant

C4_PatternsAnchored ==
  pc = "done" /\ target \in Validators /\ result.ok => FullMatch(PatternOf(target), raw.s)

\* C5: validate_color accepts "#800080" and "#40800080" and rejects "purple"
\* and "#80080".
C5_ColorExamples ==
  Done("validate_color") =>
    /\ raw.s \in {<<"#", "8", "0", "0", "0", "8", "0">>, <<"#", "4", "0", "8", "0", "0", "0", "8", "0">>} => result = Ok("()")
    /\ raw.s \in {<<"p", "u", "r", "p", "l", "e">>, <<"#", "8", "0", "0", "8", "0">>} => result = Err("Invalid color")

C5_Witness ==
  Done("validate_color") /\ raw.s = <<"#", "8", "0", "0", "8", "0">> /\ result = Err("Invalid color")

\* C6: in every enumeration the wire labels of the variants are pairwise
\* distinct, and decoding the wire label of a variant returns that variant.
C6_LabelRoundTrip ==
  pc = "done" /\ target \in EnumNames /\ raw.kind = "str" =>
    LET e == EnumByName(target)
        n == Len(e.variants)
    IN  /\ Cardinality(Labels(e)) = n
        /\ \A v \in 1..n :
             WireLabel(e, v) = raw.s =>
               result = Ok([t |-> "enum", of |-> target, variant |-> v])

C6_Witness ==
  /\ Done("GroupBarlineValue")
  /\ raw = Str(<<"M", "e", "n", "s", "u", "r", "s", "t", "r", "i", "c", "h">>)
  /\ result = Ok([t |-> "enum", of |-> "GroupBarlineValue", variant |-> 3])

\* C7: a raw label that is not character for character one of the set's
\* registered labels decodes to no variant: the decode reports an unknown
\* label.
C7_ExactLabelsOnly ==
  pc = "done" /\ target \in EnumNames /\ raw.kind = "str" =>
    (raw.s \notin Labels(EnumByName(target)) => result = Err("unknown variant"))

C7_Witness ==
  /\ Done("ClefSign")
  /\ raw = Str(<<"t", "a", "b">>)
  /\ result = Err("unknown variant")

\* C8: Percent accepts exactly the integers 0..100, Octave exactly 0..9 and
\* RotationDegrees exactly -180..180.
C8_ClosedIntervals ==
  pc = "done" /\ IsInteger(raw) =>
    /\ target = "Percent" => (result.ok <=> (0 <= raw.n /\ raw.n <= 100))
    /\ target = "Octave" => (result.ok <=> (0 <= raw.n /\ raw.n <= 9))
    /\ target = "RotationDegrees" => (result.ok <=> (-180 <= raw.n /\ raw.n <= 180))

\* C9: PositiveDecimal and PositiveDivisions reject zero and every negative
\* value, NonNegativeDecimal rejects every negative value and TrillBeats
\* rejects every value below 2.
C9_LowerBounds ==
  pc = "done" /\ IsNumber(raw) =>
    /\ target \in {"PositiveDecimal", "PositiveDivisions"} /\ as_f64(raw) <= 0 => ~result.ok
    /\ target = "NonNegativeDecimal" /\ as_f64(raw) < 0 => ~result.ok
    /\ target = "TrillBeats" /\ as_f64(raw) < 2 * FracUnits => ~result.ok

\* A present field whose value its type's validator rejects.
ViolatesConstraint(entry) ==
  /\ entry.value.kind = "str"
  /\ \/ entry.key = "color" /\ ~validate_color(entry.value.s).ok
     \/ entry.key = "font-family" /\ ~validate_comma_separated_text(entry.value.s).ok

\* C10: a record with a present color or font-family that violates the
\* field's constraint is not produced: its decode fails.
C10_ViolatingFieldFailsRecord ==
  pc = "done" /\ target \in StructNames =>
    ((\E i \in 1..Len(raw.entries) : ViolatesConstraint(raw.entries[i])) => ~result.ok)

\* The keys of a record token, and what is needed for each entry to be taken.
KeysOf(token) == {token.entries[i].key : i \in 1..Len(token.entries)}
NoRepeatedKey(token) ==
  \A i, j \in 1..Len(token.entries) :
    token.entries[i].key = token.entries[j].key => i = j
EntriesDecode(st, token) ==
  \A i \in 1..Len(token.entries) :
    Deserialize(FieldByName(st, token.entries[i].key).ty, token.entries[i].value).ok

\* The fields that have no default: no Option type and no #[serde(default)].
FieldsWithoutDefault ==
  [Accidental |-> {}, AccidentalMark |-> {}, Key |-> {"fifths", "mode"},
   Time |-> {"beats"}, Attributes |-> {"divisions", "key", "time"}]

\* C11: an absent optional field decodes to its default (None for every
\* Option field, 0 for Time.beat_type) and the record is still produced; an
\* absent field that has no default fails the whole record.
C11_PresenceRules ==
  pc = "done" /\ target \in StructNames =>
    LET st == Structs[target]
        absent == FieldNames(st) \ KeysOf(raw)
    IN  /\ absent \cap FieldsWithoutDefault[target] # {} => ~result.ok
        /\ result.ok =>
             \A k \in absent :
               result.val.fields[k] =
                 IF k = "beat-type" THEN [t |-> "int", n |-> 0] ELSE [t |-> "none"]
        /\ (/\ absent \cap FieldsWithoutDefault[target] = {}
            /\ NoRepeatedKey(raw)
            /\ EntriesDecode(st, raw)) => result.ok

C11_Witness ==
  /\ Done("Time")
  /\ raw = Map(<<Entry("beats", U64(4))>>)
  /\ result.ok
  /\ result.val.fields["beats"] = [t |-> "int", n |-> 4]
  /\ result.val.fields["beat-type"] = [t |-> "int", n |-> 0]
\* C12: a decode failure in an optional field fails only that field: the
\* record is failed only when a field without default is absent or fails, and
\* every field that does decode is decoded as if the failing one were not
\* there.
C12_OptionalFailureIsLocal ==
  pc = "done" /\ target \in StructNames /\ NoRepeatedKey(raw) =>
    LET st == Structs[target]
        decodes(i) == Deserialize(FieldByName(st, raw.entries[i].key).ty, raw.entries[i].value)
        requiredFails ==
          \/ (FieldNames(st) \ KeysOf(raw)) \cap FieldsWithoutDefault[target] # {}
          \/ \E i \in 1..Len(raw.entries) :
                raw.entries[i].key \in FieldsWithoutDefault[target] /\ ~decodes(i).ok
    IN  /\ ~result.ok => requiredFails
        /\ result.ok =>
             \A i \in 1..Len(raw.entries) :
               decodes(i).ok => result.val.fields[raw.entries[i].key] = decodes(i).val
\* C13: for Percent, a token that is no numeric literal ("abc") and a numeric
\* token outside 0..100 (101) are both refused, with two different errors.
C13_MalformedVersusOutOfRange ==
  Done("Percent") /\ raw \in {Str(<<"a", "b", "c">>), U64(101)} =>
    /\ ~result.ok
    /\ ~Deserialize(Percent, Str(<<"a", "b", "c">>)).ok
    /\ ~Deserialize(Percent, U64(101)).ok
    /\ Deserialize(Percent, Str(<<"a", "b", "c">>)).err # Deserialize(Percent, U64(101)).err
\* A single sequential call of validator v on text.
SequentialCall(v, text) ==
  CASE v = "validate_color" -> validate_color(text)
    [] v = "validate_comma_separated_text" -> validate_comma_separated_text(text)
    [] v = "validate_ending_number" -> validate_ending_number(text)
    [] v = "validate_time_only" -> validate_time_only(text)
    [] v = "validate_yyyy_mm_dd" -> validate_yyyy_mm_dd(text)

\* C14: each lazy_static regex is built at most once, holds the built regex
\* from then on, and every concurrent validation returns what a single
\* sequential call returns, whatever the interleaving with the first build.
C14_InitialisedOnce ==
  /\ \A v \in Validators :
       /\ statics[v].builds <= 1
       /\ statics[v].state = "ready" <=> statics[v].builds = 1
       /\ statics[v].cell = IF statics[v].builds = 0 THEN EmptyCell ELSE Built(PatternOf(v))
  /\ \A t \in DOMAIN threads :
       /\ threads[t].at = "match" => statics[threads[t].fn].state = "ready"
       /\ threads[t].at = "returned" => threads[t].out = SequentialCall(threads[t].fn, raw.s)

\* Two threads raced for the first use of COLOR_RE: one built it, the other
\* was parked meanwhile, and both accepted "#800080".
C14_Witness ==
  /\ raw = Str(<<"#", "8", "0", "0", "0", "8", "0">>)
  /\ \E t, u \in DOMAIN threads :
       /\ threads[t].fn = "validate_color" /\ threads[u].fn = "validate_color"
       /\ threads[t].path = "built" /\ threads[u].path = "parked"
       /\ threads[t].at = "returned" /\ threads[u].at = "returned"
       /\ threads[t].out = Ok("()") /\ threads[u].out = Ok("()")
  /\ statics["validate_color"].builds = 1
\* [1-9][0-9]*(, ?[1-9][0-9]*)* : positive integers without leading zeros,
\* separated by commas
PositiveIntegerList ==
  Concat(<<PositiveIntegerText,
           Star(Concat(<<Lit(","), Optional(Lit(" ")), PositiveIntegerText>>))>>)
Blanks == Star(Lit(" "))

\* C15: validate_ending_number accepts exactly the comma-separated lists of
\* positive integers without leading zeros and the strings of zero or more
\* spaces; every other string is rejected.
C15_EndingNumberLanguage ==
  Done("validate_ending_number") =>
    (result.ok <=> FullMatch(PositiveIntegerList, raw.s) \/ FullMatch(Blanks, raw.s))

\* dddd-dd-dd : a date without timezone data
DateText ==
  Concat(<<AnyDigit, AnyDigit, AnyDigit, AnyDigit, Lit("-"), AnyDigit, AnyDigit,
           Lit("-"), AnyDigit, AnyDigit>>)

\* C16: validate_yyyy_mm_dd accepts exactly the dates in yyyy-mm-dd form; a
\* string with timezone data ('Z' or ':') or that is no date is rejected.
C16_DateLanguage ==
  Done("validate_yyyy_mm_dd") => (result.ok <=> FullMatch(DateText, raw.s))

\* The numbers of a comma-separated list of integers, in order.
DigitValue(c) == CHOOSE d \in 0..9 : <<"0", "1", "2", "3", "4", "5", "6", "7", "8", "9">>[d + 1] = c
RECURSIVE ListValues(_, _, _)
ListValues(s, i, cur) ==
  IF i > Len(s) THEN <<cur>>
  ELSE IF s[i] = "," THEN <<cur>> \o ListValues(s, i + 1, 0)
  ELSE IF s[i] = " " THEN ListValues(s, i + 1, cur)
  ELSE ListValues(s, i + 1, 10 * cur + DigitValue(s[i]))
Ascending(ns) == \A i \in 1..(Len(ns) - 1) : ns[i] < ns[i + 1]

\* C17: validate_time_only accepts exactly the comma-separated lists of
\* positive integers without leading zeros that are in ascending order.
C17_AscendingLists ==
  Done("validate_time_only") =>
    (result.ok <=> /\ FullMatch(PositiveIntegerList, raw.s)
                   /\ Ascending(ListValues(raw.s, 1, 0)))
\* The documented range of each ranged integer type.
DocumentedRange ==
  [AccordionMiddle |-> 1..3, BeamLevel |-> 1..8, NumberLevel |-> 1..6,
   TremoloMarks |-> 0..8, Midi16 |-> 1..16, Midi128 |-> 1..128,
   Midi16384 |-> 1..16384]

\* C18: AccordionMiddle, BeamLevel, NumberLevel, TremoloMarks, Midi16, Midi128
\* and Midi16384 each decode exactly the integers of their documented range.
C18_DocumentedRanges ==
  pc = "done" /\ target \in DOMAIN DocumentedRange /\ IsInteger(raw) =>
    (result.ok <=> raw.n \in DocumentedRange[target])
\* C19: every kind value listed in the KindValue documentation decodes to a
\* KindValue variant; none is reported as an unknown label.
C19_DocumentedKindValuesDecode ==
  Done("KindValue") /\ raw.kind = "str" /\ raw.s \in DocumentedKindValues =>
    /\ result.ok
    /\ result.val.of = "KindValue"
    /\ WireLabel(KindValue, result.val.variant) = raw.s
IsFontSize(token) == IsNumber(token) \/ (token.kind = "str" /\ token.s \in CssFontSizes)

\* C20: a font-size decodes when it is a numeric point size and when it is
\* one of the CSS font sizes, as a value of its own and as the font-size
\* field of Accidental and AccidentalMark.
C20_FontSizeNumberOrKeyword ==
  /\ Done("FontSize") /\ IsFontSize(raw) => result.ok
  /\ pc = "done" /\ target \in {"Accidental", "AccidentalMark"} =>
       \A v \in {U64(12), Str(<<"s", "m", "a", "l", "l">>)} :
         raw = Map(<<Entry("font-size", v)>>) => result.ok
\* C21: CssFontSize decodes exactly the seven CSS font-size keywords, each to
\* the variant registered under it, and reports every other label as unknown.
C21_CssKeywordsExactly ==
  Done("CssFontSize") /\ raw.kind = "str" =>
    IF raw.s \in CssFontSizes
      THEN /\ result.ok
           /\ result.val.of = "CssFontSize"
           /\ WireLabel(CssFontSize, result.val.variant) = raw.s
      ELSE result = Err("unknown variant")
\* C22: a validator rejects with a reason of its own: the reason of a
\* rejection is the reason of no other validator, so that it tells which
\* rule was violated.
C22_ReasonIdentifiesValidator ==
  pc = "done" /\ target \in Validators /\ ~result.ok =>
    /\ result.err = InvalidMessage(target)
    /\ \A w \in Validators \ {target} : InvalidMessage(w) # result.err

\* A name without spaces, hyphens and underscores, in lower case.
Normalised(s) == Lowered(SelectSeq(s, LAMBDA c : c \notin {" ", "-", "_"}))

\* C23: in every enumeration the wire label of each variant spells that
\* variant's identifier, up to spaces, hyphens, underscores and case; as the
\* identifiers differ from each other, no label spells another variant.
C23_LabelSpellsVariant ==
  pc = "done" /\ target \in EnumNames =>
    LET e == EnumByName(target)
        n == Len(e.variants)
    IN  /\ Cardinality({Normalised(e.variants[v].ident) : v \in 1..n}) = n
        /\ \A v \in 1..n : Normalised(WireLabel(e, v)) = Normalised(e.variants[v].ident)

=============================================================================
